---- MODULE Spec2Model ----
(***************************************************************************)
(* Model of m4b-tools: the combine pipeline (combiner.py) and its helpers. *)
(*                                                                         *)
(* Text is a sequence of one-character strings, so that the regular        *)
(* expressions, str.strip, str.split, str.title and the natural sort key   *)
(* are computed character by character as Python computes them.            *)
(* Times are integers counting 1/UnitsPerMs of a millisecond, so that      *)
(* int(seconds * 1000) is a real truncation.                               *)
(***************************************************************************)
EXTENDS Integers, Sequences, FiniteSets, TLC

(***************************************************************************)
(* Bounds of the model.                                                    *)
(***************************************************************************)
MaxFiles == 3
UnitsPerMs == 2

(***************************************************************************)
(* Characters.                                                             *)
(***************************************************************************)
\* The characters the model uses, in code point order.
AsciiOrder ==
  <<
     "\n", " ", "#", "'", ",", "-", ".", "/", "0", "1", "2", "3", "4", "5",
     "6", "7", "8", "9", ":", ";", "=", "A", "B", "C", "D", "E", "F", "G",
     "H", "I", "J", "K", "L", "M", "N", "O", "P", "Q", "R", "S", "T", "U",
     "V", "W", "X", "Y", "Z", "[", "\\", "]", "_", "a", "b", "c", "d", "e",
     "f", "g", "h", "i", "j", "k", "l", "m", "n", "o", "p", "q", "r", "s",
     "t", "u", "v", "w", "x", "y", "z", "²" >>

Ord(c) == CHOOSE i \in 1..Len(AsciiOrder) : AsciiOrder[i] = c

UpperLetters ==
  <<
     "A", "B", "C", "D", "E", "F", "G", "H", "I", "J", "K", "L", "M", "N",
     "O", "P", "Q", "R", "S", "T", "U", "V", "W", "X", "Y", "Z" >>
LowerLetters ==
  <<
     "a", "b", "c", "d", "e", "f", "g", "h", "i", "j", "k", "l", "m", "n",
     "o", "p", "q", "r", "s", "t", "u", "v", "w", "x", "y", "z" >>

IsUpper(c) == \E i \in 1..Len(UpperLetters) : UpperLetters[i] = c
IsLower(c) == \E i \in 1..Len(LowerLetters) : LowerLetters[i] = c
IsAlpha(c) == IsUpper(c) \/ IsLower(c)
IsDigit(c) == c \in {"0", "1", "2", "3", "4", "5", "6", "7", "8", "9"}
IsSpace(c) == c \in {" ", "\n"}
\* the character class [\s\-_]
IsSep(c) == IsSpace(c) \/ c \in {"-", "_"}

LowerChar(c) ==
  IF IsUpper(c)
  THEN LowerLetters[CHOOSE i \in 1..Len(UpperLetters) : UpperLetters[i] = c]
  ELSE c
UpperChar(c) ==
  IF IsLower(c)
  THEN UpperLetters[CHOOSE i \in 1..Len(LowerLetters) : LowerLetters[i] = c]
  ELSE c

DigitValue(c) == CHOOSE d \in 0..9 : ToString(d) = c

(***************************************************************************)
(* Python string operations.                                               *)
(***************************************************************************)
Drop(s, n) == SubSeq(s, n + 1, Len(s))
Take(s, n) == SubSeq(s, 1, n)

\* str.lower
Lower(s) == [i \in 1..Len(s) |-> LowerChar(s[i])]

\* Length of the longest prefix of s whose characters all satisfy the class
\* (a greedy X* at the start of s).
RECURSIVE SpanSep(_)
SpanSep(s) == IF s # <<>> /\ IsSep(s[1]) THEN 1 + SpanSep(Tail(s)) ELSE 0
RECURSIVE SpanDigit(_)
SpanDigit(s) == IF s # <<>> /\ IsDigit(s[1]) THEN 1 + SpanDigit(Tail(s)) ELSE 0
RECURSIVE SpanSpace(_)
SpanSpace(s) == IF s # <<>> /\ IsSpace(s[1]) THEN 1 + SpanSpace(Tail(s)) ELSE 0
RECURSIVE SpanNonSpace(_)
SpanNonSpace(s) == IF s # <<>> /\ ~IsSpace(s[1]) THEN 1 + SpanNonSpace(Tail(s)) ELSE 0

Reverse(s) == [i \in 1..Len(s) |-> s[Len(s) + 1 - i]]

\* str.strip()
Strip(s) ==
  LET l == Drop(s, SpanSpace(s))
  IN  Take(l, Len(l) - SpanSpace(Reverse(l)))

\* str.split() with no argument: the maximal runs of non-whitespace.
RECURSIVE SplitWs(_)
SplitWs(s) ==
  LET t == Drop(s, SpanSpace(s))
      n == SpanNonSpace(t)
  IN  IF t = <<>> THEN <<>> ELSE <<Take(t, n)>> \o SplitWs(Drop(t, n))

\* ' '.join(words)
RECURSIVE JoinSp(_)
JoinSp(words) ==
  IF words = <<>> THEN <<>>
  ELSE IF Len(words) = 1 THEN words[1]
  ELSE words[1] \o <<" ">> \o JoinSp(Tail(words))

\* str.replace(old, new) for a single character old
ReplaceChar(s, old, new) == [i \in 1..Len(s) |-> IF s[i] = old THEN new ELSE s[i]]

\* str.title(): a cased character is upper-cased when the character before it
\* is not cased (or it is the first), lower-cased otherwise.
Title(s) ==
  [i \in 1..Len(s) |->
     IF i = 1 \/ ~IsAlpha(s[i - 1]) THEN UpperChar(s[i]) ELSE LowerChar(s[i])]

\* s.lower().startswith(p), p lower case: a case-insensitive literal prefix
StartsWithNoCase(s, p) == Len(s) >= Len(p) /\ Lower(Take(s, Len(p))) = p

\* str(n) for n >= 0
RECURSIVE IntToText(_)
IntToText(n) ==
  IF n < 10 THEN <<ToString(n)>> ELSE IntToText(n \div 10) \o <<ToString(n % 10)>>

\* int(digits) for a non-empty run of digits
RECURSIVE TextToInt(_)
TextToInt(s) ==
  IF s = <<>> THEN 0 ELSE 10 * TextToInt(Take(s, Len(s) - 1)) + DigitValue(s[Len(s)])

(***************************************************************************)
(* derive_chapter_title                                                    *)
(***************************************************************************)
\* Path(file_path).name: what follows the last '/'.
RECURSIVE BaseName(_)
BaseName(path) ==
  IF path = <<>> THEN <<>>
  ELSE IF path[Len(path)] = "/" THEN <<>>
  ELSE BaseName(Take(path, Len(path) - 1)) \o <<path[Len(path)]>>

\* Path(file_path).stem: the name without its last suffix.
RECURSIVE LastDot(_)
LastDot(name) ==
  IF name = <<>> THEN 0
  ELSE IF name[Len(name)] = "." THEN Len(name)
  ELSE LastDot(Take(name, Len(name) - 1))

PathStem(path) ==
  LET name == BaseName(path)
      i == LastDot(name)
  IN  IF i > 1 /\ i < Len(name) THEN Take(name, i - 1) ELSE name

\* re.sub(r'^(chapter|ch|part|pt)[\s\-_]*\d*[\s\-_]*', '', s, flags=re.IGNORECASE)
PrefixWords == << <<"c","h","a","p","t","e","r">>, <<"c","h">>,
                  <<"p","a","r","t">>, <<"p","t">> >>

StripSepDigitSep(s) ==
  LET a == Drop(s, SpanSep(s))
      b == Drop(a, SpanDigit(a))
  IN  Drop(b, SpanSep(b))

StripChapterPrefix(s) ==
  IF \E k \in 1..Len(PrefixWords) : StartsWithNoCase(s, PrefixWords[k])
  THEN LET k == CHOOSE j \in 1..Len(PrefixWords) :
                  /\ StartsWithNoCase(s, PrefixWords[j])
                  /\ \A h \in 1..(j - 1) : ~StartsWithNoCase(s, PrefixWords[h])
       IN  StripSepDigitSep(Drop(s, Len(PrefixWords[k])))
  ELSE s

\* re.sub(r'^\d+[\s\-_]*', '', s)
StripLeadingNumber(s) ==
  IF s # <<>> /\ IsDigit(s[1])
  THEN LET b == Drop(s, SpanDigit(s)) IN Drop(b, SpanSep(b))
  ELSE s

ChapterWord == <<"C","h","a","p","t","e","r"," ">>

CleanStem(filename) ==
  LET c1 == StripChapterPrefix(filename)
      c2 == StripLeadingNumber(c1)
      c3 == ReplaceChar(ReplaceChar(c2, "_", " "), "-", " ")
  IN  JoinSp(SplitWs(c3))

\* derive_chapter_title of the stand-alone script combine-m4b-chapters.py: the
\* cleaned stem is numbered, 'Chapter {index}: {Title}'.
derive_chapter_title_Numbered(file_path, index, existing_title) ==
  IF existing_title # <<>> THEN existing_title
  ELSE LET cleaned == CleanStem(PathStem(file_path))
       IN  IF cleaned # <<>>
           THEN ChapterWord \o IntToText(index) \o <<":", " ">> \o Title(cleaned)
           ELSE ChapterWord \o IntToText(index)

\* A faulty variant of derive_chapter_title: no fallback when nothing is left of the stem.
derive_chapter_title_NoFallback(file_path, index, existing_title) ==
  IF Strip(existing_title) # <<>> THEN Strip(existing_title)
  ELSE Title(CleanStem(PathStem(file_path)))

derive_chapter_title(file_path, index, existing_title) ==
  IF Strip(existing_title) # <<>> THEN Strip(existing_title)
  ELSE LET cleaned == CleanStem(PathStem(file_path))
       IN  IF cleaned # <<>> THEN Title(cleaned)
           ELSE ChapterWord \o IntToText(index)

(***************************************************************************)
(* natural_sort_key and list.sort(key=...)                                 *)
(***************************************************************************)
\* re.split(r'(\d+)', s): text and digit runs alternate, starting and ending
\* with a (possibly empty) text part.
RECURSIVE SpanNonDigit(_)
SpanNonDigit(s) == IF s # <<>> /\ ~IsDigit(s[1]) THEN 1 + SpanNonDigit(Tail(s)) ELSE 0

RECURSIVE SplitDigits(_)
SplitDigits(s) ==
  LET n == SpanNonDigit(s)
      r == Drop(s, n)
      d == SpanDigit(r)
  IN  IF r = <<>> THEN <<Take(s, n)>>
      ELSE <<Take(s, n), Take(r, d)>> \o SplitDigits(Drop(r, d))

\* text.isdigit(): true of the decimal digits \d matches and of other digit
\* characters, such as the superscript two.
IsDigitText(t) == t # <<>> /\ \A i \in 1..Len(t) : IsDigit(t[i]) \/ t[i] = "²"

\* int(text) raises ValueError unless every character is a decimal digit.
IsDecimalText(t) == \A i \in 1..Len(t) : IsDigit(t[i])

\* One element of the key: an int for a digit run, the lower-cased text
\* otherwise; error when computing it raises.
KeyPart(t) ==
  IF IsDigitText(t)
  THEN [int |-> TRUE, n |-> IF IsDecimalText(t) THEN TextToInt(t) ELSE 0, s |-> <<>>,
        error |-> ~IsDecimalText(t)]
  ELSE [int |-> FALSE, n |-> 0, s |-> Lower(t), error |-> FALSE]

natural_sort_key(filename) ==
  LET parts == SplitDigits(filename)
  IN  [i \in 1..Len(parts) |-> KeyPart(parts[i])]

\* Python's < on str: by code point, a proper prefix is smaller.
RECURSIVE TextLess(_, _)
TextLess(a, b) ==
  IF b = <<>> THEN FALSE
  ELSE IF a = <<>> THEN TRUE
  ELSE IF a[1] # b[1] THEN Ord(a[1]) < Ord(b[1])
  ELSE TextLess(Tail(a), Tail(b))

\* Python's < on two key elements; int against str raises TypeError.
PartComparable(p, q) == p.int = q.int
PartLess(p, q) == IF p.int THEN p.n < q.n ELSE TextLess(p.s, q.s)

\* Python's < on lists: the first differing pair decides, a proper prefix is smaller.
RECURSIVE KeyLess(_, _)
KeyLess(a, b) ==
  IF b = <<>> THEN FALSE
  ELSE IF a = <<>> THEN TRUE
  ELSE IF a[1] # b[1] THEN PartLess(a[1], b[1])
  ELSE KeyLess(Tail(a), Tail(b))

\* list.sort(key=lambda x: natural_sort_key(os.path.basename(x))) is stable:
\* equal keys keep their order.
RECURSIVE InsertByKey(_, _)
InsertByKey(sorted, f) ==
  IF sorted = <<>> THEN <<f>>
  ELSE IF KeyLess(natural_sort_key(BaseName(f)), natural_sort_key(BaseName(sorted[1])))
       THEN <<f>> \o sorted
       ELSE <<sorted[1]>> \o InsertByKey(Tail(sorted), f)

RECURSIVE NaturalSort(_)
NaturalSort(files) ==
  IF files = <<>> THEN <<>>
  ELSE InsertByKey(NaturalSort(Take(files, Len(files) - 1)), files[Len(files)])

\* The sort computes the key of every element first: it raises when one does.
SortRaises(files) ==
  \E k \in 1..Len(files) :
    \E i \in 1..Len(natural_sort_key(BaseName(files[k]))) :
      natural_sort_key(BaseName(files[k]))[i].error

(***************************************************************************)
(* create_chapter_metadata                                                 *)
(***************************************************************************)
\* str(n) for any integer
SignedIntToText(n) == IF n < 0 THEN <<"-">> \o IntToText(0 - n) ELSE IntToText(n)

\* A faulty variant of TruncMs: rounding to the nearest millisecond.
TruncMs_Rounded(t) == (t + (UnitsPerMs \div 2)) \div UnitsPerMs

\* int(seconds * 1000): truncation toward zero of a time given in units of
\* 1/UnitsPerMs ms.
TruncMs(t) == IF t >= 0 THEN t \div UnitsPerMs ELSE 0 - ((0 - t) \div UnitsPerMs)

KeyTitle == <<"t","i","t","l","e">>
MarkerLine == <<";","F","F","M","E","T","A","D","A","T","A","1","\n">>
ChapterLine == <<"[","C","H","A","P","T","E","R","]","\n">>
TimebaseLine == <<"T","I","M","E","B","A","S","E","=","1","/","1","0","0","0","\n">>
StartKey == <<"S","T","A","R","T">>
EndKey == <<"E","N","D">>

\* f.write(f"{key}={value}\n")
WriteTag(key, value) == key \o <<"=">> \o value \o <<"\n">>
\* if metadata.get(field): f.write(f"{key}={metadata[field]}\n")
WriteTagIfSet(key, value) == IF value # <<>> THEN WriteTag(key, value) ELSE <<>>

WriteBookTags(metadata) ==
  WriteTagIfSet(KeyTitle, metadata.title)
  \o WriteTagIfSet(<<"a","r","t","i","s","t">>, metadata.artist)
  \o WriteTagIfSet(<<"a","l","b","u","m">>, metadata.album)
  \o WriteTagIfSet(<<"a","l","b","u","m","_","a","r","t","i","s","t">>, metadata.author)
  \o WriteTagIfSet(<<"c","o","m","p","o","s","e","r">>, metadata.narrator)
  \o WriteTagIfSet(<<"g","e","n","r","e">>, metadata.genre)
  \o WriteTagIfSet(<<"d","a","t","e">>, metadata.year)
  \o WriteTagIfSet(<<"c","o","m","m","e","n","t">>, metadata.description)

WriteChapter(chapter) ==
  ChapterLine
  \o TimebaseLine
  \o WriteTag(StartKey, SignedIntToText(TruncMs(chapter.start)))
  \o WriteTag(EndKey, SignedIntToText(TruncMs(chapter.end)))
  \o WriteTag(KeyTitle, chapter.title)
  \o <<"\n">>

RECURSIVE WriteChapters(_)
WriteChapters(chs) ==
  IF chs = <<>> THEN <<>> ELSE WriteChapter(chs[1]) \o WriteChapters(Tail(chs))

\* The text written to metadata.txt.
create_chapter_metadata(chs, metadata) ==
  MarkerLine \o WriteBookTags(metadata) \o <<"\n">> \o WriteChapters(chs)

\* What a function called alone has returned or raised.
NotCalled == [done |-> FALSE]
Returned(value) == [done |-> TRUE, raised |-> "", value |-> value]

(***************************************************************************)
(* The files of the modelled file system and what ffprobe reports on them. *)
(***************************************************************************)
MFile2 == <<"2",".","m","4","b">>
MFile10 == <<"1","0",".","m","4","b">>
MFileChA == <<"c","h","_","a",".","m","4","b">>
MFilePt1 == <<"P","t","1",".","m","4","b">>
MFileB == <<"b",".","m","4","b">>
AllFiles == {MFile2, MFile10, MFileChA, MFilePt1, MFileB}

NoTags == [title |-> <<>>, artist |-> <<>>, album |-> <<>>]
AacStream == [codec_name |-> "aac", sample_rate |-> "44100", channels |-> 2]

\* ffprobe -show_format -show_streams: ok is FALSE when the call fails or
\* prints no JSON; has_duration is FALSE when format has no duration entry.
FfprobeFormat(f) ==
  CASE f = MFile2 ->
         [ok |-> TRUE, has_duration |-> TRUE, duration |-> 0,
          tags |-> NoTags, stream |-> AacStream]
    [] f = MFile10 ->
         [ok |-> TRUE, has_duration |-> TRUE, duration |-> 5,
          tags |-> [title |-> <<"T"," ">>, artist |-> <<>>, album |-> <<"L">>],
          stream |-> AacStream]
    [] f = MFileChA ->
         [ok |-> TRUE, has_duration |-> TRUE, duration |-> 4,
          tags |-> [title |-> <<" ">>, artist |-> <<>>, album |-> <<>>],
          stream |-> [codec_name |-> "mp3", sample_rate |-> "44100", channels |-> 2]]
    [] f = MFilePt1 ->
         [ok |-> FALSE, has_duration |-> FALSE, duration |-> 0,
          tags |-> NoTags, stream |-> AacStream]
    [] OTHER ->
         [ok |-> TRUE, has_duration |-> FALSE, duration |-> 0,
          tags |-> NoTags, stream |-> AacStream]

\* ffprobe -show_chapters: how the call ends ("" when it prints JSON that
\* parses, else the exception that subprocess.run or json.loads raises) and
\* the chapters of the container, each with start_time, end_time (numeric
\* is FALSE when one of them is not the text of a number) and possibly a
\* title tag.
FfprobeChapters(f) ==
  CASE f = MFile10 ->
         [error |-> "",
          chapters |-> << [start_time |-> 0, end_time |-> 2, numeric |-> TRUE,
                           has_title |-> TRUE, title |-> <<"a">>],
                          [start_time |-> 2, end_time |-> 5, numeric |-> TRUE,
                           has_title |-> FALSE, title |-> <<>>] >>]
    [] f = MFileChA ->
         [error |-> "",
          chapters |-> << [start_time |-> 1, end_time |-> 3, numeric |-> TRUE,
                           has_title |-> TRUE, title |-> <<>>] >>]
    [] f = MFileB -> [error |-> "CalledProcessError", chapters |-> <<>>]
    [] OTHER -> [error |-> "", chapters |-> <<>>]

EmptyDict == [k \in {} |-> <<>>]

get_audio_metadata(file_path) ==
  LET p == FfprobeFormat(file_path)
  IN  IF ~p.ok THEN EmptyDict
      ELSE [duration |-> IF p.has_duration THEN p.duration ELSE 0,
            title |-> p.tags.title,
            artist |-> p.tags.artist,
            album |-> p.tags.album,
            codec |-> p.stream.codec_name,
            sample_rate |-> p.stream.sample_rate,
            channels |-> p.stream.channels]

RECURSIVE ReadChapters(_, _)
ReadChapters(raw, done) ==
  IF raw = <<>> THEN done
  ELSE ReadChapters(Tail(raw),
         Append(done,
           [title |-> IF raw[1].has_title THEN raw[1].title
                      ELSE ChapterWord \o IntToText(Len(done) + 1),
            start |-> raw[1].start_time,
            end |-> raw[1].end_time,
            duration |-> raw[1].end_time - raw[1].start_time]))

\* extract_existing_chapters, lines 34-58, on what the probe gives: the
\* handler of line 56 catches CalledProcessError and JSONDecodeError; any
\* other exception of the call, and the ValueError of float() on a time that
\* is not a number, leave the function.
ExtractChapters(p) ==
  IF p.error \in {"CalledProcessError", "JSONDecodeError"} THEN Returned(<<>>)
  ELSE IF p.error # "" THEN [done |-> TRUE, raised |-> p.error]
  ELSE IF \E k \in 1..Len(p.chapters) : ~p.chapters[k].numeric
  THEN [done |-> TRUE, raised |-> "ValueError"]
  ELSE Returned(ReadChapters(p.chapters, <<>>))

extract_existing_chapters(file_path) == ExtractChapters(FfprobeChapters(file_path)).value

(***************************************************************************)
(* combine_m4b_files as a state machine.                                   *)
(***************************************************************************)
VARIABLES
  args,            \* the arguments of the call
  ffmpeg_ok,       \* what check_ffmpeg() finds
  csv_result,      \* what parse_csv_input(csv_file) returns or raises
  glob_result,     \* what glob.glob(input_pattern) returns, suffix-filtered
  pc,              \* the position in combine_m4b_files
  title,           \* local: title
  output_file,     \* local: output_file
  csv_metadata,    \* local: csv_metadata
  file_title_list, \* local: file_title_list
  m4b_files,       \* local: m4b_files
  files_metadata,  \* local: files_metadata
  total_duration,  \* local: total_duration
  encode_params,   \* local: encode_params
  chapters,        \* local: chapters
  current_time,    \* local: current_time
  track_index,     \* the number of tracks the chapter loop has done
  output_metadata, \* local: output_metadata
  temp,            \* the temporary directory in use and whether it exists
  concat_list,     \* the files listed in concat_list.txt, in order
  metadata_doc,    \* the content of metadata.txt
  tool_calls,      \* the transcoder invocations made so far
  output_state,    \* what is at the output path
  ret,             \* the value returned
  alt_chapters,    \* a second chapter list (create_chapter_metadata alone)
  alt_doc,         \* the document written for alt_chapters
  call,            \* the arguments and environment of a function called alone
  result,          \* what that call returned or raised
  successful_conversions, \* convert_all_to_m4b: successful_conversions
  completed_files, \* convert_all_to_m4b: completed_files
  raised,          \* the exception propagating to main(), "" if none
  exit_code,       \* what main() returns
  future_to_file,  \* convert_all_to_m4b: the calls of process_single_file
  output_files     \* convert_all_to_m4b: what is at each output path

vars == << args, ffmpeg_ok, csv_result, glob_result, pc, title, output_file,
           csv_metadata, file_title_list, m4b_files, files_metadata,
           total_duration, encode_params, chapters, current_time, track_index,
           output_metadata, temp, concat_list, metadata_doc, tool_calls,
           output_state, ret, alt_chapters, alt_doc, call, result,
           successful_conversions, completed_files, raised, exit_code,
           future_to_file, output_files >>

\* The variables of the command line entry point.
cli == << successful_conversions, completed_files, raised, exit_code >>

\* What only the steps of a convert batch change.
batch == << future_to_file, output_files >>

\* What no step of combine_m4b_files changes.
inputs == << args, ffmpeg_ok, csv_result, glob_result, alt_chapters, alt_doc,
             call, result, cli, batch >>
effects == << temp, concat_list, metadata_doc, tool_calls, output_state >>

\* Sequences over S of length lo..hi.
SeqsOf(S, lo, hi) == UNION {[1..n -> S] : n \in lo..hi}
IsInjective(q) == \A a, b \in 1..Len(q) : a # b => q[a] # q[b]

NoCsvMetadata ==
  [title |-> <<>>, author |-> <<>>, narrator |-> <<>>, genre |-> <<>>,
   year |-> <<>>, description |-> <<>>, output_path |-> <<>>, cover_path |-> <<>>]

\* The rows a manifest of the model may hold: {'file': ..., 'title': ...}.
ManifestRows ==
  { [file |-> MFile2, title |-> <<>>], [file |-> MFile2, title |-> <<"X">>],
    [file |-> MFile10, title |-> <<"Y">>], [file |-> MFile10, title |-> <<>>],
    [file |-> MFileChA, title |-> <<>>], [file |-> MFilePt1, title |-> <<"Z">>],
    [file |-> MFileB, title |-> <<>>], [file |-> MFile10, title |-> <<"W">>] }

\* parse_csv_input raises FileNotFoundError or ValueError, which line 448 catches.
CsvRaises ==
  [ok |-> FALSE, caught |-> TRUE, file_title_list |-> <<>>, metadata |-> NoCsvMetadata]

\* parse_csv_input returns at least one entry or raises; an exception that is
\* neither FileNotFoundError nor ValueError is not caught.
CsvResults ==
  {CsvRaises, [CsvRaises EXCEPT !.caught = FALSE]} \cup
  { [ok |-> TRUE, caught |-> TRUE, file_title_list |-> l,
     metadata |-> [NoCsvMetadata EXCEPT !.title = t, !.output_path = o]] :
      l \in SeqsOf(ManifestRows, 1, MaxFiles),
      t \in {<<>>, <<"C">>}, o \in {<<>>, <<"c">>} }

GlobResults == {q \in SeqsOf(AllFiles, 0, MaxFiles) : IsInjective(q)}

ArgSets(csv) ==
  [csv_file : {csv}, input_pattern : IF csv THEN {FALSE} ELSE BOOLEAN,
   output_file : {<<>>, <<"o">>}, title : {<<>>, <<"A">>},
   preserve_existing_chapters : BOOLEAN, temp_dir : BOOLEAN]

NoTemp == [kind |-> "none", exists |-> FALSE, created |-> FALSE]

Init ==
  /\ \E csv \in BOOLEAN :
       /\ args \in ArgSets(csv)
       /\ csv_result \in (IF csv THEN CsvResults ELSE {CsvRaises})
       /\ glob_result \in (IF ~csv /\ args.input_pattern THEN GlobResults ELSE {<<>>})
  /\ ffmpeg_ok \in BOOLEAN
  /\ (~ffmpeg_ok) => (args.title = <<>> /\ args.output_file = <<>>
                      /\ ~args.preserve_existing_chapters /\ ~args.temp_dir
                      /\ csv_result = CsvRaises /\ glob_result = <<>>)
  /\ pc = "start"
  /\ title = args.title
  /\ output_file = args.output_file
  /\ csv_metadata = NoCsvMetadata
  /\ file_title_list = <<>>
  /\ m4b_files = <<>>
  /\ files_metadata = <<>>
  /\ total_duration = 0
  /\ encode_params = <<>>
  /\ chapters = <<>>
  /\ current_time = 0
  /\ track_index = 0
  /\ output_metadata = <<>>
  /\ temp = NoTemp
  /\ concat_list = <<>>
  /\ metadata_doc = <<>>
  /\ tool_calls = <<>>
  /\ output_state = "untouched"
  /\ ret = "none"
  /\ alt_chapters = <<>>
  /\ alt_doc = <<>>
  /\ call = <<>>
  /\ result = <<>>
  /\ successful_conversions = 0
  /\ completed_files = 0
  /\ raised = ""
  /\ exit_code = -1
  /\ future_to_file = <<>>
  /\ output_files = <<>>

Return(value) == pc' = "returned" /\ ret' = value

\* A faulty variant of ResolveOutput: the explicit argument wins over the directive.
ResolveOutput_ArgFirst(md, output_arg) ==
  IF output_arg # <<>> THEN output_arg ELSE md.output_path

\* Lines 443-444: if 'output_path' in csv_metadata: output_file = csv_metadata['output_path']
ResolveOutput(md, output_arg) ==
  IF md.output_path # <<>> THEN md.output_path ELSE output_arg

\* Lines 445-446: if 'title' in csv_metadata and not title: title = csv_metadata['title']
ResolveTitle(md, title_arg) ==
  IF md.title # <<>> /\ title_arg = <<>> THEN md.title ELSE title_arg

\* Lines 430-477: the tool check, the input list, the overrides, the sort.
Resolve ==
  /\ pc = "start"
  /\ UNCHANGED << inputs, effects, files_metadata, total_duration, encode_params,
                  chapters, current_time, track_index, output_metadata >>
  /\ IF ~ffmpeg_ok
     THEN /\ Return("False")
          /\ UNCHANGED << title, output_file, csv_metadata, file_title_list, m4b_files >>
     ELSE IF args.csv_file
     THEN IF ~csv_result.ok
          THEN /\ Return(IF csv_result.caught THEN "False" ELSE "raised")
               /\ UNCHANGED << title, output_file, csv_metadata, file_title_list, m4b_files >>
          ELSE LET md == csv_result.metadata
                   list == csv_result.file_title_list
                   files == [k \in 1..Len(list) |-> list[k].file]
                   out == ResolveOutput(md, output_file)
               IN  /\ csv_metadata' = md
                   /\ file_title_list' = list
                   /\ output_file' = out
                   /\ title' = ResolveTitle(md, title)
                   /\ IF out = <<>>
                      THEN Return("False") /\ m4b_files' = files
                      ELSE IF SortRaises(files)
                      THEN Return("raised") /\ m4b_files' = files
                      ELSE /\ m4b_files' = NaturalSort(files)
                           /\ pc' = "probe"
                           /\ ret' = ret
     ELSE IF ~args.input_pattern
     THEN /\ Return("False")
          /\ UNCHANGED << title, output_file, csv_metadata, file_title_list, m4b_files >>
     ELSE /\ file_title_list' = [k \in 1..Len(glob_result) |->
                                   [file |-> glob_result[k], title |-> <<>>]]
          /\ UNCHANGED << title, output_file, csv_metadata >>
          /\ IF glob_result = <<>> \/ output_file = <<>>
             THEN Return("False") /\ m4b_files' = glob_result
             ELSE IF SortRaises(glob_result)
             THEN Return("raised") /\ m4b_files' = glob_result
             ELSE /\ m4b_files' = NaturalSort(glob_result)
                  /\ pc' = "probe"
                  /\ ret' = ret

\* Lines 486-497: one iteration of the metadata loop.
ProbeFile ==
  /\ pc = "probe"
  /\ LET file_path == m4b_files[Len(files_metadata) + 1]
         metadata == get_audio_metadata(file_path)
     IN  IF DOMAIN metadata = {}
         THEN /\ Return("False")
              /\ UNCHANGED << files_metadata, total_duration >>
         ELSE /\ files_metadata' =
                   Append(files_metadata,
                          [duration |-> metadata.duration, title |-> metadata.title,
                           artist |-> metadata.artist, album |-> metadata.album,
                           codec |-> metadata.codec,
                           sample_rate |-> metadata.sample_rate,
                           channels |-> metadata.channels,
                           file_path |-> file_path, start_offset |-> total_duration])
              /\ total_duration' = total_duration + metadata.duration
              /\ pc' = IF Len(files_metadata) + 1 = Len(m4b_files) THEN "compat" ELSE "probe"
              /\ ret' = ret
  /\ UNCHANGED << inputs, effects, title, output_file, csv_metadata,
                  file_title_list, m4b_files, encode_params, chapters,
                  current_time, track_index, output_metadata >>

\* A faulty variant of check_audio_compatibility: only the codec is compared.
check_audio_compatibility_CodecOnly(fm) ==
  IF fm = <<>> THEN FALSE
  ELSE \A k \in 2..Len(fm) : fm[k].codec = fm[1].codec

check_audio_compatibility(fm) ==
  IF fm = <<>> THEN FALSE
  ELSE \A k \in 2..Len(fm) :
         ~(\/ fm[k].codec # fm[1].codec
           \/ fm[k].sample_rate # fm[1].sample_rate
           \/ fm[k].channels # fm[1].channels)

\* Lines 499-506: the encoder arguments of the concat invocation.
EncodeParams(fm) ==
  IF check_audio_compatibility(fm) THEN <<"-c", "copy">>
  ELSE <<"-c:a", "aac", "-b:a", "64k", "-ac", "2">>

\* Lines 499-511: the choice of the encoder parameters.
CheckCompatibility ==
  /\ pc = "compat"
  /\ encode_params' = EncodeParams(files_metadata)
  /\ chapters' = <<>>
  /\ current_time' = 0
  /\ pc' = "chapters"
  /\ UNCHANGED << inputs, effects, title, output_file, csv_metadata,
                  file_title_list, m4b_files, files_metadata, total_duration,
                  track_index, output_metadata, ret >>

\* Lines 515-521: the title of the first manifest entry naming the file.
RECURSIVE FirstTitleOf(_, _)
FirstTitleOf(list, file_path) ==
  IF list = <<>> THEN <<>>
  ELSE IF list[1].file = file_path THEN list[1].title
  ELSE FirstTitleOf(Tail(list), file_path)

CsvTitle(file_path) ==
  IF args.csv_file THEN FirstTitleOf(file_title_list, file_path) ELSE <<>>

\* csv_title or derive_chapter_title(file_path, i, file_meta.get('title', ''))
BaseTitle(file_meta, i) ==
  LET csv_title == CsvTitle(file_meta.file_path)
  IN  IF csv_title # <<>> THEN csv_title
      ELSE derive_chapter_title(file_meta.file_path, i, file_meta.title)

TitleJoin == <<" ","-"," ">>

\* A faulty variant of ChaptersOfTrack: a zero-duration track contributes no chapter.
ChaptersOfTrack_DropEmpty(file_meta, i, t) ==
  IF file_meta.duration = 0 THEN <<>>
  ELSE << [title |-> BaseTitle(file_meta, i), start |-> t,
           end |-> t + file_meta.duration] >>

\* A faulty variant of ChaptersOfTrack: embedded chapters are carried over unshifted.
ChaptersOfTrack_NoOffset(file_meta, i, t) ==
  LET existing_chapters == extract_existing_chapters(file_meta.file_path)
  IN  IF args.preserve_existing_chapters /\ existing_chapters # <<>>
      THEN [k \in 1..Len(existing_chapters) |->
              [title |-> BaseTitle(file_meta, i) \o TitleJoin
                           \o existing_chapters[k].title,
               start |-> existing_chapters[k].start,
               end |-> existing_chapters[k].end]]
      ELSE << [title |-> BaseTitle(file_meta, i), start |-> t,
               end |-> t + file_meta.duration] >>

\* Lines 523-550: the chapters one track contributes at cursor t.
ChaptersOfTrack(file_meta, i, t) ==
  LET existing_chapters == extract_existing_chapters(file_meta.file_path)
      whole == << [title |-> BaseTitle(file_meta, i),
                   start |-> t,
                   end |-> t + file_meta.duration] >>
  IN  IF args.preserve_existing_chapters
      THEN IF existing_chapters # <<>>
           THEN [k \in 1..Len(existing_chapters) |->
                   [title |-> BaseTitle(file_meta, i) \o TitleJoin
                                \o existing_chapters[k].title,
                    start |-> t + existing_chapters[k].start,
                    end |-> t + existing_chapters[k].end]]
           ELSE whole
      ELSE whole

\* Lines 513-552: one iteration of the chapter loop.
GenerateChapters ==
  /\ pc = "chapters"
  /\ LET i == track_index + 1
         file_meta == files_metadata[i]
     IN  /\ chapters' = chapters \o ChaptersOfTrack(file_meta, i, current_time)
         /\ current_time' = current_time + file_meta.duration
         /\ track_index' = i
         /\ pc' = IF i = Len(files_metadata) THEN "prepare" ELSE "chapters"
  /\ UNCHANGED << inputs, effects, title, output_file, csv_metadata,
                  file_title_list, m4b_files, files_metadata, total_duration,
                  encode_params, output_metadata, ret >>

\* a or b or c or d on strings: the first non-empty one
FirstNonEmpty(a, b, c, d) ==
  IF a # <<>> THEN a ELSE IF b # <<>> THEN b ELSE IF c # <<>> THEN c ELSE d

DefaultTitle ==
  <<"C","o","m","b","i","n","e","d"," ","A","u","d","i","o","b","o","o","k">>
DefaultGenre == <<"A","u","d","i","o","b","o","o","k">>

\* A faulty variant of OutputMetadata: the embedded album tag wins over the manifest.
OutputMetadata_AlbumFirst ==
  [title |-> FirstNonEmpty(args.title, files_metadata[1].album, csv_metadata.title, DefaultTitle),
   artist |-> IF csv_metadata.author # <<>> THEN csv_metadata.author
              ELSE files_metadata[1].artist,
   album |-> FirstNonEmpty(args.title, files_metadata[1].album, csv_metadata.title, DefaultTitle),
   author |-> csv_metadata.author,
   narrator |-> csv_metadata.narrator,
   genre |-> IF csv_metadata.genre # <<>> THEN csv_metadata.genre ELSE DefaultGenre,
   year |-> csv_metadata.year,
   description |-> csv_metadata.description]

\* Lines 575-584.
OutputMetadata ==
  [title |-> FirstNonEmpty(title, csv_metadata.title, files_metadata[1].album, DefaultTitle),
   artist |-> IF csv_metadata.author # <<>> THEN csv_metadata.author
              ELSE files_metadata[1].artist,
   album |-> FirstNonEmpty(title, csv_metadata.title, files_metadata[1].album, DefaultTitle),
   author |-> csv_metadata.author,
   narrator |-> csv_metadata.narrator,
   genre |-> IF csv_metadata.genre # <<>> THEN csv_metadata.genre ELSE DefaultGenre,
   year |-> csv_metadata.year,
   description |-> csv_metadata.description]

\* A faulty variant of LeaveTemp: the directory is left where it is.
LeaveTemp_Keep(t) == t

\* Leaving the with block: a TemporaryDirectory is removed, a given one is kept.
LeaveTemp(t) == [t EXCEPT !.exists = (t.kind = "given")]

\* Lines 556-618: the temporary directory, the concat list, the metadata file.
\* A given directory is made if it is missing (os.makedirs, exist_ok); an
\* exception while the files are written leaves the with block.
\* Paths of the model are absolute, so os.path.abspath changes nothing.
Prepare ==
  /\ pc = "prepare"
  /\ \E existed \in (IF args.temp_dir THEN BOOLEAN ELSE {FALSE}), raises \in BOOLEAN :
       LET made == [kind |-> IF args.temp_dir THEN "given" ELSE "own",
                    exists |-> TRUE, created |-> ~existed]
       IN  IF raises
           THEN /\ temp' = LeaveTemp(made)
                /\ Return("raised")
                /\ UNCHANGED << concat_list, output_metadata, metadata_doc >>
           ELSE /\ temp' = made
                /\ concat_list' = m4b_files
                /\ output_metadata' = OutputMetadata
                /\ metadata_doc' = create_chapter_metadata(chapters, OutputMetadata)
                /\ pc' = "concat"
                /\ UNCHANGED ret
  /\ UNCHANGED << inputs, title, output_file, csv_metadata, file_title_list,
                  m4b_files, files_metadata, total_duration, encode_params,
                  chapters, current_time, track_index, tool_calls, output_state >>

TempCombined == <<"c","o","m","b","i","n","e","d","_","t","e","m","p",".","m","4","b">>

\* What subprocess.run(cmd, check=True) does: it returns ("ok"), it raises
\* CalledProcessError ("failed"), or it raises something else ("raised").
RunOutcomes == {"ok", "failed", "raised"}

\* Lines 620-638: the concat invocation; only CalledProcessError is caught.
Concat ==
  /\ pc = "concat"
  /\ tool_calls' = Append(tool_calls, [tool |-> "concat", input |-> concat_list,
                                        params |-> encode_params,
                                        output |-> TempCombined])
  /\ \E outcome \in RunOutcomes :
       IF outcome = "ok"
       THEN pc' = "inject" /\ UNCHANGED << temp, ret >>
       ELSE /\ Return(IF outcome = "failed" THEN "False" ELSE "raised")
            /\ temp' = LeaveTemp(temp)
  /\ UNCHANGED << inputs, title, output_file, csv_metadata, file_title_list,
                  m4b_files, files_metadata, total_duration, encode_params,
                  chapters, current_time, track_index, output_metadata,
                  concat_list, metadata_doc, output_state >>

\* Lines 640-668: the metadata invocation writes output_file itself (-y).
\* When it does not succeed, what it leaves there is nothing or a partial
\* file; on success the file may still be missing or empty, which line 671
\* tests.
Inject ==
  /\ pc = "inject"
  /\ tool_calls' = Append(tool_calls, [tool |-> "inject", input |-> metadata_doc,
                                        params |-> <<"-c", "copy">>,
                                        output |-> output_file])
  /\ \E outcome \in RunOutcomes :
       IF outcome = "ok"
       THEN /\ output_state' \in {"complete", "empty", output_state}
            /\ pc' = "verify"
            /\ UNCHANGED << temp, ret >>
       ELSE /\ output_state' \in {"partial", output_state}
            /\ Return(IF outcome = "failed" THEN "False" ELSE "raised")
            /\ temp' = LeaveTemp(temp)
  /\ UNCHANGED << inputs, title, output_file, csv_metadata, file_title_list,
                  m4b_files, files_metadata, total_duration, encode_params,
                  chapters, current_time, track_index, output_metadata,
                  concat_list, metadata_doc >>

\* Lines 670-682: os.path.exists(output_file) and os.path.getsize(output_file) > 0.
Verify ==
  /\ pc = "verify"
  /\ Return(IF output_state = "complete" THEN "True" ELSE "False")
  /\ temp' = LeaveTemp(temp)
  /\ UNCHANGED << inputs, title, output_file, csv_metadata, file_title_list,
                  m4b_files, files_metadata, total_duration, encode_params,
                  chapters, current_time, track_index, output_metadata,
                  concat_list, metadata_doc, tool_calls, output_state >>

Next ==
  \/ Resolve
  \/ ProbeFile
  \/ CheckCompatibility
  \/ GenerateChapters
  \/ Prepare
  \/ Concat
  \/ Inject
  \/ Verify

Spec == Init /\ [][Next]_vars

(***************************************************************************)
(* Properties of combine_m4b_files.                                        *)
(***************************************************************************)
\* The chapter loop has run over every track.
Synthesized == track_index > 0 /\ track_index = Len(m4b_files)

\* The duration the probe gives track k, and the sum over the first k tracks.
TrackDuration(k) == get_audio_metadata(m4b_files[k]).duration
RECURSIVE SumDurations(_)
SumDurations(k) == IF k = 0 THEN 0 ELSE SumDurations(k - 1) + TrackDuration(k)

\* C1: without preserve_existing_chapters, N probed tracks give exactly N
\* chapters in track order; chapter k starts at d1+...+d(k-1) and ends dk
\* later, the first starts at 0, each ends where the next starts, the last ends
\* at the sum of all durations, and a zero-duration track keeps its chapter.
C1_PrefixSums ==
  (Synthesized /\ ~args.preserve_existing_chapters) =>
    /\ Len(chapters) = Len(m4b_files)
    /\ \A k \in 1..Len(chapters) :
         /\ chapters[k].start = SumDurations(k - 1)
         /\ chapters[k].end = chapters[k].start + TrackDuration(k)
    /\ chapters[1].start = 0
    /\ \A k \in 1..(Len(chapters) - 1) : chapters[k].end = chapters[k + 1].start
    /\ chapters[Len(chapters)].end = SumDurations(Len(m4b_files))

C1_Witness ==
  /\ Synthesized
  /\ ~args.preserve_existing_chapters
  /\ Len(chapters) = 3
  /\ TrackDuration(1) > 0
  /\ TrackDuration(2) = 0
  /\ chapters[2].start = chapters[2].end
  /\ chapters[3].end = SumDurations(3)
  /\ chapters[3].end > chapters[3].start

\* C2: every synthesized chapter list, with or without preserved chapters,
\* starts at 0 and has each chapter end where the next starts.
C2_NoGapsNoOverlaps ==
  Synthesized =>
    /\ chapters[1].start = 0
    /\ \A k \in 1..(Len(chapters) - 1) : chapters[k].end = chapters[k + 1].start

\* The files of the manifest, in row order.
ManifestFiles ==
  [k \in 1..Len(csv_result.file_title_list) |-> csv_result.file_title_list[k].file]

\* C3: with a manifest, the tracks are concatenated, and their chapters
\* emitted, in manifest row order.
C3_ManifestOrder ==
  (args.csv_file /\ Len(tool_calls) > 0) =>
    /\ tool_calls[1].tool = "concat"
    /\ tool_calls[1].input = ManifestFiles
    /\ [k \in 1..Len(files_metadata) |-> files_metadata[k].file_path] = ManifestFiles

\* The title the precedence rule picks: argument, manifest, album tag, default.
TitleByPrecedence ==
  IF args.title # <<>> THEN args.title
  ELSE IF args.csv_file /\ csv_result.metadata.title # <<>> THEN csv_result.metadata.title
  ELSE IF FfprobeFormat(m4b_files[1]).tags.album # <<>>
       THEN FfprobeFormat(m4b_files[1]).tags.album
  ELSE DefaultTitle

IsPrefix(a, b) == Len(a) <= Len(b) /\ Take(b, Len(a)) = a

InjectCalls == {k \in 1..Len(tool_calls) : tool_calls[k].tool = "inject"}

BothOutputsGiven ==
  /\ args.csv_file
  /\ args.output_file # <<>>
  /\ csv_result.ok
  /\ csv_result.metadata.output_path # <<>>

\* C5 as claimed: with an explicit output_file and an output_path directive,
\* the combined file is written to the explicit argument's path.
C5_ArgumentOutputWins ==
  BothOutputsGiven => \A k \in InjectCalls : tool_calls[k].output = args.output_file

\* C5 as amended: with an explicit output_file and an output_path directive,
\* the combined file is written to the directive's path; the argument is used
\* only when the manifest has no output_path directive.
C5_DirectiveOutputWins ==
  args.csv_file =>
    \A k \in InjectCalls :
      tool_calls[k].output =
        IF csv_result.metadata.output_path # <<>>
        THEN csv_result.metadata.output_path ELSE args.output_file

C5_Witness ==
  /\ BothOutputsGiven
  /\ args.output_file # csv_result.metadata.output_path
  /\ InjectCalls # {}
  /\ output_state = "complete"
  /\ \A k \in InjectCalls : tool_calls[k].output = csv_result.metadata.output_path

\* The probe of f returned a duration.
ProbeReturnsDuration(f) == FfprobeFormat(f).ok /\ FfprobeFormat(f).has_duration

\* C6: when the probe of some input track returns no duration, combine
\* returns False and synthesizes no chapter, creates no temporary directory,
\* invokes no transcoder step and writes nothing at the output path.
C6_NoDurationAborts ==
  (pc # "start" /\ \E k \in 1..Len(m4b_files) : ~ProbeReturnsDuration(m4b_files[k])) =>
    /\ chapters = <<>>
    /\ temp = NoTemp
    /\ tool_calls = <<>>
    /\ output_state = "untouched"
    /\ pc = "returned" => ret = "False"

\* The title of the first manifest row naming f; empty without a manifest.
ManifestTitle(f) ==
  IF args.csv_file /\ \E k \in 1..Len(file_title_list) : file_title_list[k].file = f
  THEN file_title_list[CHOOSE k \in 1..Len(file_title_list) :
                         /\ file_title_list[k].file = f
                         /\ \A h \in 1..(k - 1) : file_title_list[h].file # f].title
  ELSE <<>>

\* The base title of track i: the manifest title, else the derived title.
ExpectedBase(i) ==
  IF ManifestTitle(m4b_files[i]) # <<>> THEN ManifestTitle(m4b_files[i])
  ELSE derive_chapter_title(m4b_files[i], i, FfprobeFormat(m4b_files[i]).tags.title)

\* The embedded chapters of f as the chapter probe reports them.
Embedded(f) == IF FfprobeChapters(f).error = "" THEN FfprobeChapters(f).chapters ELSE <<>>
EmbeddedTitle(f, k) ==
  IF Embedded(f)[k].has_title THEN Embedded(f)[k].title
  ELSE ChapterWord \o IntToText(k)

\* C9: with preserve_existing_chapters, a track at cursor t with k >= 1
\* embedded chapters adds exactly k chapters, in embedded order, each shifted
\* by t and titled '<base_title> - <embedded_title>'; a track with none adds
\* the one chapter [t, t + duration]; either way the cursor advances by the
\* track's duration.
C9_PreserveStep ==
  [][ (pc = "chapters" /\ args.preserve_existing_chapters) =>
        LET i == track_index + 1
            f == m4b_files[i]
            t == current_time
            added == SubSeq(chapters', Len(chapters) + 1, Len(chapters'))
        IN  /\ track_index' = i
            /\ current_time' = t + TrackDuration(i)
            /\ Take(chapters', Len(chapters)) = chapters
            /\ IF Len(Embedded(f)) >= 1
               THEN /\ Len(added) = Len(Embedded(f))
                    /\ \A k \in 1..Len(added) :
                         /\ added[k].start = t + Embedded(f)[k].start_time
                         /\ added[k].end = t + Embedded(f)[k].end_time
                         /\ added[k].title =
                              ExpectedBase(i) \o <<" ", "-", " ">> \o EmbeddedTitle(f, k)
               ELSE added = << [title |-> ExpectedBase(i), start |-> t,
                                end |-> t + TrackDuration(i)] >> ]_vars

C9_Witness ==
  /\ args.preserve_existing_chapters
  /\ Synthesized
  /\ Len(m4b_files) = 3
  /\ Len(Embedded(m4b_files[1])) = 2
  /\ Len(Embedded(m4b_files[2])) = 0
  /\ Len(Embedded(m4b_files[3])) = 1
  /\ TrackDuration(1) > 0
  /\ Len(chapters) = 4
  /\ chapters[2].start = Embedded(m4b_files[1])[2].start_time
  /\ chapters[3].start = TrackDuration(1)
  /\ chapters[4].start =
       TrackDuration(1) + TrackDuration(2) + Embedded(m4b_files[3])[1].start_time
  /\ current_time = SumDurations(3)

\* Track i has no manifest title, no embedded title and nothing left of its stem.
NothingToDeriveFrom(i) ==
  /\ ManifestTitle(m4b_files[i]) = <<>>
  /\ Strip(FfprobeFormat(m4b_files[i]).tags.title) = <<>>
  /\ ~(args.preserve_existing_chapters /\ Len(Embedded(m4b_files[i])) >= 1)
  /\ CleanStem(PathStem(m4b_files[i])) = <<>>

\* C10: no chapter combine emits has an empty title, and a track with no
\* manifest title, no embedded title and an empty cleaned stem is titled
\* 'Chapter {n}', n its 1-based position.
C10_TitlesNonEmpty ==
  /\ \A k \in 1..Len(chapters) : chapters[k].title # <<>>
  /\ (track_index >= 1 /\ NothingToDeriveFrom(track_index)) =>
       chapters[Len(chapters)].title =
         <<"C","h","a","p","t","e","r"," ">> \o IntToText(track_index)

C10_Witness ==
  /\ track_index = 2
  /\ NothingToDeriveFrom(2)
  /\ chapters[Len(chapters)].title = <<"C","h","a","p","t","e","r"," ","2">>

(***************************************************************************)
(* create_chapter_metadata on its own: the inputs are drawn in the initial *)
(* state and the function is applied to them.                              *)
(***************************************************************************)
MaxChapters == 2

\* A title that itself holds the text of a chapter block.
BlockInTitle ==
  <<"a","\n","\n">> \o ChapterLine \o TimebaseLine
  \o WriteTag(StartKey, <<"0">>) \o WriteTag(EndKey, <<"0">>)
  \o KeyTitle \o <<"=","b">>

CodecTitles == { <<"a">>, <<"b">>, <<>>, <<"a","=","#",";","\\","b">>, BlockInTitle }
CodecTimes == { <<0, 0>>, <<0, 3>>, <<3, 5>>, <<5, 7>> }
CodecChapters(titles, times) ==
  { [title |-> ti, start |-> tm[1], end |-> tm[2]] : ti \in titles, tm \in times }

CodecMetadata ==
  [title : {<<>>, <<"T">>}, artist : {<<>>, <<"R">>}, album : {<<>>, <<"L">>},
   author : {<<>>, <<"U">>}, narrator : {<<>>, <<"N">>}, genre : {<<>>, <<"G">>},
   year : {<<>>, <<"1","9">>}, description : {<<>>, <<"D">>}]

\* The variables create_chapter_metadata does not touch.
CodecIdle ==
  /\ args = [csv_file |-> FALSE, input_pattern |-> FALSE, output_file |-> <<>>,
             title |-> <<>>, preserve_existing_chapters |-> FALSE, temp_dir |-> TRUE]
  /\ ffmpeg_ok = TRUE
  /\ csv_result = CsvRaises
  /\ glob_result = <<>>
  /\ title = <<>>
  /\ output_file = <<>>
  /\ csv_metadata = NoCsvMetadata
  /\ file_title_list = <<>>
  /\ m4b_files = <<>>
  /\ files_metadata = <<>>
  /\ total_duration = 0
  /\ encode_params = <<>>
  /\ current_time = 0
  /\ track_index = 0
  /\ temp = [kind |-> "given", exists |-> TRUE, created |-> FALSE]
  /\ concat_list = <<>>
  /\ tool_calls = <<>>
  /\ output_state = "untouched"
  /\ ret = "none"
  /\ successful_conversions = 0
  /\ completed_files = 0
  /\ raised = ""
  /\ exit_code = -1
  /\ future_to_file = <<>>
  /\ output_files = <<>>

CodecInit ==
  /\ CodecIdle
  /\ pc = "encode"
  /\ chapters \in SeqsOf(CodecChapters(CodecTitles \ {BlockInTitle}, CodecTimes \ {<<5, 7>>}),
                         0, MaxChapters)
  /\ output_metadata \in CodecMetadata
  /\ metadata_doc = <<>>
  /\ alt_chapters = <<>>
  /\ alt_doc = <<>>
  /\ call = <<>>
  /\ result = <<>>

\* create_chapter_metadata(chapters, temp_dir, metadata)
EncodeDocument ==
  /\ pc = "encode"
  /\ metadata_doc = <<>>
  /\ metadata_doc' = create_chapter_metadata(chapters, output_metadata)
  /\ UNCHANGED << inputs, pc, title, output_file, csv_metadata, file_title_list,
                  m4b_files, files_metadata, total_duration, encode_params,
                  chapters, current_time, track_index, output_metadata, temp,
                  concat_list, tool_calls, output_state, ret >>

SpecCodec == CodecInit /\ [][EncodeDocument]_vars

\* Two chapter lists encoded with the same book metadata.
CodecPairInit ==
  /\ CodecIdle
  /\ pc = "encode"
  /\ chapters \in SeqsOf(CodecChapters({<<"a">>, <<"b">>, BlockInTitle}, {<<0, 0>>, <<0, 3>>}),
                         0, MaxChapters)
  /\ alt_chapters \in SeqsOf(CodecChapters({<<"a">>, <<"b">>}, {<<0, 0>>, <<0, 3>>}),
                             0, MaxChapters)
  /\ output_metadata \in {m \in CodecMetadata : m.artist = m.title /\ m.album = m.title
                            /\ m.author = <<>> /\ m.narrator = <<>> /\ m.genre = <<>>
                            /\ m.year = <<>> /\ m.description = <<>>}
  /\ metadata_doc = <<>>
  /\ alt_doc = <<>>
  /\ call = <<>>
  /\ result = <<>>

\* create_chapter_metadata(alt_chapters, temp_dir, metadata)
EncodeAlternative ==
  /\ pc = "encode"
  /\ alt_doc = <<>>
  /\ alt_doc' = create_chapter_metadata(alt_chapters, output_metadata)
  /\ UNCHANGED << args, ffmpeg_ok, csv_result, glob_result, alt_chapters, call,
                  result, cli, pc, title, output_file, csv_metadata, file_title_list, m4b_files,
                  files_metadata, total_duration, encode_params, chapters,
                  current_time, track_index, output_metadata, temp, concat_list,
                  metadata_doc, tool_calls, output_state, ret, batch >>

CodecPairNext ==
  \/ EncodeDocument
  \/ EncodeAlternative

SpecCodecPair == CodecPairInit /\ [][CodecPairNext]_vars

\* What a decoder is asked to return: titles and millisecond boundaries.
Truncated(chs) ==
  [k \in 1..Len(chs) |->
     [title |-> chs[k].title,
      start |-> TruncMs(chs[k].start),
      end |-> TruncMs(chs[k].end)]]

\* C7: encoding a chapter list, injecting the document and decoding it gives
\* back the same chapters, titles and millisecond-truncated boundaries, for
\* every title, line breaks included.  The decoder reads nothing but the
\* document, so it can give back both of two chapter lists only when their
\* documents differ: equal documents must come from lists with equal titles
\* and truncated boundaries.
C7_RoundTrip ==
  (metadata_doc # <<>> /\ metadata_doc = alt_doc) =>
    Truncated(chapters) = Truncated(alt_chapters)

\* The whole milliseconds in t: the m with m ms <= t < (m + 1) ms.
WholeMs(t) == CHOOSE m \in 0..t : m * UnitsPerMs <= t /\ t < (m + 1) * UnitsPerMs

\* The lines of the document, as the format is described.
ExpectedTagLines(md) ==
  LET all == << <<"t","i","t","l","e","=">> \o md.title,
                <<"a","r","t","i","s","t","=">> \o md.artist,
                <<"a","l","b","u","m","=">> \o md.album,
                <<"a","l","b","u","m","_","a","r","t","i","s","t","=">> \o md.author,
                <<"c","o","m","p","o","s","e","r","=">> \o md.narrator,
                <<"g","e","n","r","e","=">> \o md.genre,
                <<"d","a","t","e","=">> \o md.year,
                <<"c","o","m","m","e","n","t","=">> \o md.description >>
      empty(line) == line[Len(line)] = "="
  IN  SelectSeq(all, LAMBDA line : ~empty(line))

ExpectedChapterLines(ch) ==
  << <<"[","C","H","A","P","T","E","R","]">>,
     <<"T","I","M","E","B","A","S","E","=","1","/","1","0","0","0">>,
     <<"S","T","A","R","T","=">> \o IntToText(WholeMs(ch.start)),
     <<"E","N","D","=">> \o IntToText(WholeMs(ch.end)),
     <<"t","i","t","l","e","=">> \o ch.title,
     <<>> >>

RECURSIVE ExpectedBlocks(_)
ExpectedBlocks(chs) ==
  IF chs = <<>> THEN <<>> ELSE ExpectedChapterLines(chs[1]) \o ExpectedBlocks(Tail(chs))

RECURSIVE JoinLines(_)
JoinLines(lines) ==
  IF lines = <<>> THEN <<>> ELSE lines[1] \o <<"\n">> \o JoinLines(Tail(lines))

\* C8: the document is the marker line ';FFMETADATA1', one key=value line
\* for each non-empty book field and none for an empty one, in the order
\* title, artist, album, album_artist, composer, genre, date, comment, a
\* blank line, and per chapter in input order '[CHAPTER]', 'TIMEBASE=1/1000',
\* 'START=<ms>', 'END=<ms>', 'title=<title>' and a blank line, <ms> being
\* the time truncated to whole milliseconds.
C8_DocumentFormat ==
  (pc = "encode" /\ metadata_doc # <<>>) =>
    metadata_doc =
      JoinLines(<< <<";","F","F","M","E","T","A","D","A","T","A","1">> >>
                \o ExpectedTagLines(output_metadata)
                \o << <<>> >>
                \o ExpectedBlocks(chapters))

C8_Witness ==
  /\ pc = "encode"
  /\ metadata_doc # <<>>
  /\ Len(chapters) = 2
  /\ chapters[1].title # chapters[2].title
  /\ chapters[1].end % UnitsPerMs # 0
  /\ output_metadata.title = <<>>
  /\ output_metadata.author # <<>>
  /\ output_metadata.year # <<>>
  /\ output_metadata.description = <<>>

(***************************************************************************)
(* Functions called alone: the call's arguments and environment are drawn  *)
(* in the initial state, one step makes the call.                          *)
(***************************************************************************)
\* The variables of combine_m4b_files, which a function called alone leaves.
AloneIdle ==
  /\ CodecIdle
  /\ chapters = <<>>
  /\ output_metadata = <<>>
  /\ metadata_doc = <<>>
  /\ alt_chapters = <<>>
  /\ alt_doc = <<>>

\* Everything but result.
allButResult ==
  << args, ffmpeg_ok, csv_result, glob_result, alt_chapters, alt_doc, call, pc,
     title, output_file, csv_metadata, file_title_list, m4b_files,
     files_metadata, total_duration, encode_params, chapters, current_time,
     track_index, output_metadata, temp, concat_list, metadata_doc, tool_calls,
     output_state, ret, cli, batch >>

(***************************************************************************)
(* derive_chapter_title called alone.                                      *)
(***************************************************************************)
MaxIndex == 3

DeriveInit ==
  /\ AloneIdle
  /\ pc = "derive"
  /\ call \in [file_path :
        { <<"C","h","a","p","t","e","r","_","0","3","_","T","h","e","_","A","w","a","k","e","n","i","n","g",".","m","4","b">>,
          <<"0","9",".","m","4","b">>,
          <<"x",".","m","4","b">>,
          <<"d",".","1","/","C","H","0","1",".","m","4","a">>,
          <<"p","t","-","2"," ","-"," ","i","N","t","r","o",".","m","4","b">>,
          <<"C","h","a","i","r",".","m","4","b">>,
          <<"3","_","p","a","r","t","_","t","w","o",".","m","4","b">>,
          <<"c","h","1","_","2","_","3","r","d",".","m","4","b">>,
          <<"P","a","r","t",".","m","4","b">>,
          <<"a","-","-","b","_","_","c","'","s",".","m","4","b">> },
               index : 1..MaxIndex,
               existing_title :
        { <<>>, <<" ">>, <<"\n"," ">>, <<"E","x","i","s","t","i","n","g">>,
          <<" ","E","x"," ","i","s","t"," ">>, <<"a","_","b","\n">> }]
  /\ result = NotCalled

\* derive_chapter_title(file_path, index, existing_title)
DeriveTitle ==
  /\ pc = "derive"
  /\ ~result.done
  /\ result' = Returned(derive_chapter_title(call.file_path, call.index,
                                             call.existing_title))
  /\ UNCHANGED allButResult

SpecDerive == DeriveInit /\ [][DeriveTitle]_vars

\* The stem of the call's file: the base name up to its last '.'.
CallStem ==
  LET name == BaseName(call.file_path)
      dots == {i \in 2..(Len(name) - 1) : name[i] = "."}
  IN  IF dots = {} THEN name
      ELSE Take(name, (CHOOSE i \in dots : \A j \in dots : j <= i) - 1)

Separators == {" ", "\n", "-", "_"}
Digits == {"0", "1", "2", "3", "4", "5", "6", "7", "8", "9"}

\* s without its longest prefix made of characters of the set.
RECURSIVE WithoutLeading(_, _)
WithoutLeading(s, class) ==
  IF s # <<>> /\ s[1] \in class THEN WithoutLeading(Tail(s), class) ELSE s

\* s without the leading token chapter|ch|part|pt, in any case, and the
\* separators, digits and separators that follow it.
WithoutToken(s) ==
  LET low == [i \in 1..Len(s) |-> LowerChar(s[i])]
      starts(w) == Len(low) >= Len(w) /\ SubSeq(low, 1, Len(w)) = w
      n == IF starts(<<"c","h","a","p","t","e","r">>) THEN 7
           ELSE IF starts(<<"c","h">>) THEN 2
           ELSE IF starts(<<"p","a","r","t">>) THEN 4
           ELSE IF starts(<<"p","t">>) THEN 2
           ELSE 0
      rest == SubSeq(s, n + 1, Len(s))
  IN  IF n = 0 THEN s
      ELSE WithoutLeading(WithoutLeading(WithoutLeading(rest, Separators), Digits), Separators)

\* s without a leading digit run and the separators after it.
WithoutNumber(s) ==
  IF s # <<>> /\ s[1] \in Digits
  THEN WithoutLeading(WithoutLeading(s, Digits), Separators)
  ELSE s

\* '_' and '-' become spaces, runs of whitespace one space, none at the ends.
RECURSIVE Collapsed(_, _)
Collapsed(s, pending) ==
  IF s = <<>> THEN <<>>
  ELSE IF s[1] \in {"_", "-", " ", "\n"} THEN Collapsed(Tail(s), TRUE)
  ELSE (IF pending THEN <<" ">> ELSE <<>>) \o <<s[1]>> \o Collapsed(Tail(s), FALSE)

\* Title case: a letter that begins a run of letters is upper case, any
\* other letter lower case.
RECURSIVE TitleCased(_, _)
TitleCased(s, inWord) ==
  IF s = <<>> THEN <<>>
  ELSE <<IF inWord THEN LowerChar(s[1]) ELSE UpperChar(s[1])>>
       \o TitleCased(Tail(s), IsAlpha(s[1]))

\* What is left of the stem, before the fall back to 'Chapter {position}'.
CleanedStem ==
  LET c == Collapsed(WithoutNumber(WithoutToken(CallStem)), FALSE)
  IN  IF c # <<>> /\ c[1] = " " THEN Tail(c) ELSE c

DerivedFromStem ==
  IF CleanedStem = <<>>
  THEN <<"C","h","a","p","t","e","r"," ">> \o IntToText(call.index)
  ELSE TitleCased(CleanedStem, FALSE)

IsBlank(s) == \A i \in 1..Len(s) : s[i] \in {" ", "\n"}

\* C11: derive_chapter_title returns existing_title verbatim, unchanged,
\* whenever its trimmed form is non-empty; otherwise it returns the file stem
\* without the leading chapter|ch|part|pt token (and the digits and separators
\* after it), without a remaining leading digit run and separators, with '_'
\* and '-' replaced by spaces, whitespace collapsed and title-cased, falling
\* back to 'Chapter {position}' when nothing is left.
C11_ExistingVerbatim ==
  (pc = "derive" /\ result.done) =>
    result.value = IF ~IsBlank(call.existing_title) THEN call.existing_title
                   ELSE DerivedFromStem

(***************************************************************************)
(* parse_csv_input                                                          *)
(***************************************************************************)
\* sub in s, for a single character sub
Contains(s, c) == \E i \in 1..Len(s) : s[i] = c

\* s.split(c, 1) when c is in s: the text before and after the first c
SplitOnce(s, c) ==
  LET i == CHOOSE j \in 1..Len(s) : s[j] = c /\ \A h \in 1..(j - 1) : s[h] # c
  IN  << Take(s, i - 1), Drop(s, i) >>

\* The fields csv.reader makes of a line without quotes: the text between
\* the commas.
RECURSIVE SplitCommas(_)
SplitCommas(s) ==
  IF Contains(s, ",")
  THEN <<SplitOnce(s, ",")[1]>> \o SplitCommas(SplitOnce(s, ",")[2])
  ELSE <<s>>

\* Path(file_path).suffix
PathSuffix(path) ==
  LET name == BaseName(path)
      i == LastDot(name)
  IN  IF i > 1 /\ i < Len(name) THEN Drop(name, i - 1) ELSE <<>>

Raised(error, file_list, metadata) ==
  [done |-> TRUE, raised |-> error, file_list |-> file_list, metadata |-> metadata]

\* Lines 338-358: the loop over the lines; idx is data_start_idx.
RECURSIVE ScanDirectives(_, _, _, _)
ScanDirectives(lines, i, metadata, idx) ==
  IF i > Len(lines) THEN [metadata |-> metadata, data_start_idx |-> idx]
  ELSE LET line == Strip(lines[i])
       IN  IF line # <<>> /\ line[1] = "#"
           THEN IF Contains(line, ",") \/ Contains(line, ":")
                THEN LET kv == SplitOnce(Tail(line),
                                         IF Contains(line, ",") THEN "," ELSE ":")
                         key == Lower(Strip(kv[1]))
                         value == Strip(kv[2])
                     IN  ScanDirectives(lines, i + 1,
                           IF key # <<>> /\ value # <<>>
                           THEN [k \in DOMAIN metadata \cup {key} |->
                                   IF k = key THEN value ELSE metadata[k]]
                           ELSE metadata,
                           i)
                ELSE ScanDirectives(lines, i + 1, metadata, idx)
           ELSE IF line # <<>>
                THEN [metadata |-> metadata, data_start_idx |-> idx]
                ELSE ScanDirectives(lines, i + 1, metadata, idx)

\* csv.DictReader: row[name], the cell under the last column called name;
\* has is FALSE when no column has the name, none is TRUE when the row is
\* too short to have the cell (restval None).
RowCell(fieldnames, fields, name) ==
  LET cols == {k \in 1..Len(fieldnames) : fieldnames[k] = name}
      col == CHOOSE k \in cols : \A h \in cols : h <= k
  IN  IF cols = {} THEN [has |-> FALSE, none |-> FALSE, text |-> <<>>]
      ELSE IF col > Len(fields) THEN [has |-> TRUE, none |-> TRUE, text |-> <<>>]
      ELSE [has |-> TRUE, none |-> FALSE, text |-> fields[col]]

ColFile == <<"f","i","l","e">>
ColTitle == <<"t","i","t","l","e">>
AudioSuffixes == { <<".","m","4","b">>, <<".","m","4","a">> }

ErrNoFileColumn == "CSV must have a 'file' column"
ErrNoValid == "No valid M4B files found in CSV"

\* Lines 383-388: the absolute path of a file value.
ResolvePath(csv_dir, file_path) ==
  IF file_path[1] = "/" THEN file_path ELSE csv_dir \o <<"/">> \o file_path

\* Lines 374-403: the loop over the rows of the reader.
RECURSIVE ReadRows(_, _, _, _, _)
ReadRows(fieldnames, rows, file_list, csv_dir, existing) ==
  IF rows = <<>> THEN [raised |-> "", file_list |-> file_list]
  ELSE LET fields == SplitCommas(rows[1])
           file_cell == RowCell(fieldnames, fields, ColFile)
           title_cell == RowCell(fieldnames, fields, ColTitle)
           file_path == ResolvePath(csv_dir, Strip(file_cell.text))
           skip == ReadRows(fieldnames, Tail(rows), file_list, csv_dir, existing)
       IN  IF ~file_cell.has THEN [raised |-> ErrNoFileColumn, file_list |-> file_list]
           ELSE IF file_cell.none THEN [raised |-> "'NoneType' object has no attribute 'strip'", file_list |-> file_list]
           ELSE IF Strip(file_cell.text) = <<>> THEN skip
           ELSE IF file_path \notin existing THEN skip
           ELSE IF Lower(PathSuffix(file_path)) \notin AudioSuffixes THEN skip
           ELSE IF title_cell.has /\ title_cell.none
                THEN [raised |-> "'NoneType' object has no attribute 'strip'", file_list |-> file_list]
           ELSE ReadRows(fieldnames, Tail(rows),
                         Append(file_list, [file |-> file_path,
                                            title |-> Strip(title_cell.text)]),
                         csv_dir, existing)

\* line.strip() is empty
IsBlankLine(line) == Strip(line) = <<>>

\* parse_csv_input(csv_file) for a manifest in directory csv_dir holding
\* lines (without their line ends), found tells whether the manifest exists,
\* existing is the set of the paths that exist.
parse_csv_input(found, csv_dir, lines, existing) ==
  IF ~found THEN Raised("CSV file not found", <<>>, EmptyDict)
  ELSE LET scan == ScanDirectives(lines, 1, EmptyDict, 0)
           metadata == scan.metadata
           csv_data == Drop(lines, scan.data_start_idx)
           nonempty == SelectSeq(csv_data, LAMBDA l : ~IsBlankLine(l))
       IN  IF csv_data = <<>> THEN Raised("No data rows found in CSV file", <<>>, metadata)
           ELSE IF nonempty = <<>> THEN Raised("No non-empty data rows found in CSV file", <<>>, metadata)
           ELSE LET rows == ReadRows(SplitCommas(nonempty[1]), Tail(nonempty),
                                     <<>>, csv_dir, existing)
                IN  IF rows.raised # "" THEN Raised(rows.raised, rows.file_list, metadata)
                    ELSE IF rows.file_list = <<>>
                         THEN Raised(ErrNoValid, <<>>, metadata)
                         ELSE [done |-> TRUE, raised |-> "",
                               file_list |-> rows.file_list, metadata |-> metadata]

(***************************************************************************)
(* parse_csv_input called alone.                                           *)
(***************************************************************************)
MaxLines == 4

CsvDir == <<"/","m">>
\* The files that exist: /m/a.m4b, /m/c.mp3 and /r/z.M4A.
ExistingPaths ==
  { <<"/","m","/","a",".","m","4","b">>,
    <<"/","m","/","c",".","m","p","3">>,
    <<"/","r","/","z",".","M","4","A">> }

\* The lines a manifest of the model is made of: '#title,My Book',
\* ' # Au :b,c ', '#year:19', '#k,', '#note', ' ', 'file,title', 'file',
\* 'a.m4b,Intro', '/r/z.M4A, Z ', 'nope.m4b,x', 'c.mp3,y' and 'a.m4b'.
LinePool ==
  { <<"#","t","i","t","l","e",",","M","y"," ","B","o","o","k">>,
    <<" ","#"," ","A","u"," ",":","b",",","c"," ">>,
    <<"#","y","e","a","r",":","1","9">>,
    <<"#","k",",">>,
    <<"#","n","o","t","e">>,
    <<" ">>,
    <<"f","i","l","e",",","t","i","t","l","e">>,
    <<"f","i","l","e">>,
    <<"a",".","m","4","b",",","I","n","t","r","o">>,
    <<"/","r","/","z",".","M","4","A",","," ","Z"," ">>,
    <<"n","o","p","e",".","m","4","b",",","x">>,
    <<"c",".","m","p","3",",","y">>,
    <<"a",".","m","4","b">> }

CsvInit ==
  /\ AloneIdle
  /\ pc = "parse_csv"
  /\ \E found \in BOOLEAN :
       call \in [found : {found}, csv_dir : {CsvDir},
                 lines : IF found THEN SeqsOf(LinePool, 0, MaxLines) ELSE {<<>>}]
  /\ result = NotCalled

\* parse_csv_input(csv_file)
ParseCsv ==
  /\ pc = "parse_csv"
  /\ ~result.done
  /\ result' = parse_csv_input(call.found, call.csv_dir, call.lines, ExistingPaths)
  /\ UNCHANGED allButResult

SpecCsv == CsvInit /\ [][ParseCsv]_vars

\* The first non-whitespace character of the line is '#'.
IsDirectiveLine(line) == Strip(line) # <<>> /\ Strip(line)[1] = "#"

\* The position of the first non-empty line that does not start with '#',
\* 0 when the manifest has none.
HeaderIndex ==
  LET heads == {i \in 1..Len(call.lines) :
                  ~IsBlankLine(call.lines[i]) /\ ~IsDirectiveLine(call.lines[i])}
  IN  IF heads = {} THEN 0 ELSE CHOOSE i \in heads : \A j \in heads : i <= j

\* The lines of the directive block, in order.
DirectiveBlock ==
  LET last == IF HeaderIndex = 0 THEN Len(call.lines) ELSE HeaderIndex - 1
  IN  SelectSeq(SubSeq(call.lines, 1, last), IsDirectiveLine)

\* The non-empty lines after the header: the data rows before filtering.
DataRows ==
  IF HeaderIndex = 0 THEN <<>>
  ELSE SelectSeq(SubSeq(call.lines, HeaderIndex + 1, Len(call.lines)),
                 LAMBDA l : ~IsBlankLine(l))

\* The key and the value a directive line gives: the text after '#' split at
\* the first ',' if there is one, otherwise at the first ':'.
DirectiveOf(line) ==
  LET text == Tail(Strip(line))
      at(c) == CHOOSE i \in 1..Len(text) : text[i] = c /\ \A j \in 1..(i - 1) : text[j] # c
      cut == IF \E i \in 1..Len(text) : text[i] = "," THEN at(",")
             ELSE IF \E i \in 1..Len(text) : text[i] = ":" THEN at(":")
             ELSE 0
  IN  IF cut = 0 THEN [key |-> <<>>, value |-> <<>>]
      ELSE [key |-> Lower(Strip(SubSeq(text, 1, cut - 1))),
            value |-> Strip(SubSeq(text, cut + 1, Len(text)))]

\* The metadata the directive block gives: later directives replace earlier
\* ones of the same key, a directive with an empty key or value adds nothing.
RECURSIVE MetadataOf(_)
MetadataOf(block) ==
  IF block = <<>> THEN EmptyDict
  ELSE LET before == MetadataOf(SubSeq(block, 1, Len(block) - 1))
           d == DirectiveOf(block[Len(block)])
       IN  IF d.key = <<>> \/ d.value = <<>> THEN before
           ELSE [k \in DOMAIN before \cup {d.key} |->
                   IF k = d.key THEN d.value ELSE before[k]]

HeaderHasFile ==
  HeaderIndex # 0 /\ ColFile \in {SplitCommas(call.lines[HeaderIndex])[k] :
                                    k \in 1..Len(SplitCommas(call.lines[HeaderIndex]))}

ParsedManifest == pc = "parse_csv" /\ result.done /\ call.found

\* C12: the leading lines whose first non-whitespace character is '#' are
\* directives, split at the first ',' if the line has one, otherwise at the
\* first ':', the key trimmed and lower-cased, the value trimmed, a directive
\* with an empty key or value adding nothing; the first non-empty line that
\* does not start with '#' ends the block and is the table header: a parse
\* that returns gives exactly the metadata of the block, and a header with a
\* 'file' column is never reported as lacking one.
C12_DirectiveBlock ==
  (ParsedManifest /\ HeaderIndex # 0) =>
    /\ (result.raised = "" => result.metadata = MetadataOf(DirectiveBlock))
    /\ (HeaderHasFile => result.raised # ErrNoFileColumn)

\* The entry a data row gives, as a sequence of none or one entry.
EntryOfRow(row) ==
  LET cell == RowCell(SplitCommas(call.lines[HeaderIndex]), SplitCommas(row), ColFile)
      value == Strip(cell.text)
      path == IF value[1] = "/" THEN value ELSE call.csv_dir \o <<"/">> \o value
  IN  IF cell.none \/ value = <<>> THEN <<>>
      ELSE IF path \in ExistingPaths /\ Lower(PathSuffix(path)) \in AudioSuffixes
           THEN <<path>> ELSE <<>>

RECURSIVE EntriesOf(_)
EntriesOf(rows) ==
  IF rows = <<>> THEN <<>> ELSE EntryOfRow(rows[1]) \o EntriesOf(Tail(rows))

\* Every directive line of the block has a ',' or a ':'.
DirectivesSeparated ==
  \A k \in 1..Len(DirectiveBlock) :
    \E i \in 1..Len(DirectiveBlock[k]) : DirectiveBlock[k][i] \in {",", ":"}

\* C13: a data row whose resolved file does not exist or whose extension is
\* not .m4b/.m4a is skipped without aborting the parse; every other row with
\* a non-empty file value gives exactly one entry, in manifest row order, a
\* relative file value resolved against the manifest's directory and an
\* absolute one kept.
C13_RowsToEntries ==
  (ParsedManifest /\ HeaderHasFile /\ DirectivesSeparated) =>
    /\ result.raised \in {"", ErrNoValid}
    /\ [k \in 1..Len(result.file_list) |-> result.file_list[k].file] = EntriesOf(DataRows)

\* C14: a manifest with zero data rows before filtering (only directives, or
\* only a header line) and a manifest whose data rows were all filtered out
\* both fail, with distinct errors: a manifest with no data rows is not
\* reported with the error of 'all rows filtered'.
C14_DistinctErrors ==
  (ParsedManifest /\ (HeaderIndex # 0 => HeaderHasFile) /\ DirectivesSeparated) =>
    /\ (DataRows = <<>> => result.raised \notin {"", ErrNoValid})
    /\ (DataRows # <<>> /\ EntriesOf(DataRows) = <<>> => result.raised # "")

(***************************************************************************)
(* The command line entry point: main() and the three subcommands.         *)
(* combine_m4b_files and generate_csv_from_folder are seen from main() as   *)
(* calls that return True or False or raise; convert_all_to_m4b handles the *)
(* matched files one after the other.                                      *)
(***************************************************************************)
MaxBatch == 3
MaxJobs == 2

\* The parsed arguments and what the run meets.  audio_files holds, for each
\* matched file, what process_single_file does: it returns True ("ok"), it
\* returns False ("failed"), or it raises ("raised").
CliCalls ==
  [command : {"", "usage"}, jobs : {1}, ffmpeg : {TRUE}, audio_files : {<<>>},
   csv : {FALSE}, pattern : {FALSE}, output : {FALSE}]
  \cup
  [command : {"convert"}, jobs : 0..MaxJobs, ffmpeg : BOOLEAN,
   audio_files : SeqsOf({"ok", "failed", "raised"}, 0, MaxBatch),
   csv : {FALSE}, pattern : {TRUE}, output : {TRUE}]
  \cup
  [command : {"combine"}, jobs : {1}, ffmpeg : {TRUE}, audio_files : {<<>>},
   csv : BOOLEAN, pattern : BOOLEAN, output : BOOLEAN]
  \cup
  [command : {"generate-csv"}, jobs : {1}, ffmpeg : {TRUE}, audio_files : {<<>>},
   csv : {FALSE}, pattern : {FALSE}, output : BOOLEAN]

CliInit ==
  /\ AloneIdle
  /\ pc = "main"
  /\ call \in CliCalls
  /\ result = NotCalled

\* Everything but pc, result and the variables of the entry point.
cliIdle ==
  << args, ffmpeg_ok, csv_result, glob_result, alt_chapters, alt_doc, call,
     title, output_file, csv_metadata, file_title_list, m4b_files,
     files_metadata, total_duration, encode_params, chapters, current_time,
     track_index, output_metadata, temp, concat_list, metadata_doc, tool_calls,
     output_state, ret, batch >>

MainReturns(code) == pc' = "returned" /\ exit_code' = code

\* main, lines 271-276: parse_args leaves through SystemExit(2) on a usage
\* error; without a command main returns 1.
ParseArgs ==
  /\ pc = "main"
  /\ IF call.command = "usage" THEN pc' = "sysexit" /\ exit_code' = 2
     ELSE IF call.command = "" THEN MainReturns(1)
     ELSE pc' = "dispatch" /\ UNCHANGED exit_code
  /\ UNCHANGED << cliIdle, result, successful_conversions, completed_files, raised >>

\* A faulty variant of ConvertExitCode: any file that failed makes the exit code 1.
ConvertExitCode_AllOrNothing(successful, total) ==
  IF successful = total THEN 0 ELSE 1

\* cmd_convert, lines 48-53.
ConvertExitCode(successful, total) ==
  IF successful = total THEN 0
  ELSE IF successful = 0 THEN 1 ELSE 0

\* A faulty variant of SuccessExitCode: the exit code is 0 whatever was returned.
SuccessExitCode_Always(success) == 0

\* cmd_combine, lines 79-85, and cmd_generate_csv, lines 94-99.
SuccessExitCode(success) == IF success THEN 0 ELSE 1

\* A faulty variant of ExceptionExitCode: an interrupt is reported as any other exception.
ExceptionExitCode_Same(exception) == 1

\* main, lines 288-293.
ExceptionExitCode(exception) == IF exception = "KeyboardInterrupt" THEN 130 ELSE 1

\* cmd_convert, lines 31-46, entering convert_all_to_m4b, lines 190-245:
\* without the transcoder or without a supported file it returns (0, 0).
CmdConvert ==
  /\ pc = "dispatch"
  /\ call.command = "convert"
  /\ IF call.jobs < 1 THEN MainReturns(1) /\ UNCHANGED result
     ELSE IF ~call.ffmpeg \/ call.audio_files = <<>>
     THEN /\ result' = Returned(<<0, 0>>)
          /\ pc' = "convert_return"
          /\ UNCHANGED exit_code
     ELSE /\ pc' = "convert_loop"
          /\ UNCHANGED << result, exit_code >>
  /\ successful_conversions' = 0
  /\ completed_files' = 0
  /\ UNCHANGED << cliIdle, raised >>

\* convert_all_to_m4b, lines 287-330: the next file is processed and counted.
\* An exception of process_single_file propagates when max_workers is 1 and
\* is counted as a failure otherwise; after the last file the counters are
\* returned.
ProcessFile ==
  /\ pc = "convert_loop"
  /\ LET outcome == call.audio_files[completed_files + 1]
         total_files == Len(call.audio_files)
         successful == successful_conversions + (IF outcome = "ok" THEN 1 ELSE 0)
     IN  IF outcome = "raised" /\ call.jobs = 1
         THEN /\ raised' = "Exception"
              /\ pc' = "except"
              /\ UNCHANGED << successful_conversions, completed_files, result >>
         ELSE /\ successful_conversions' = successful
              /\ completed_files' = completed_files + 1
              /\ UNCHANGED raised
              /\ IF completed_files + 1 = total_files
                 THEN /\ result' = Returned(<<successful, total_files>>)
                      /\ pc' = "convert_return"
                 ELSE UNCHANGED << pc, result >>
  /\ UNCHANGED << cliIdle, exit_code >>

\* cmd_convert, lines 48-53.
CmdConvertReturn ==
  /\ pc = "convert_return"
  /\ MainReturns(ConvertExitCode(result.value[1], result.value[2]))
  /\ UNCHANGED << cliIdle, result, successful_conversions, completed_files, raised >>

\* cmd_combine, lines 58-77: the validation, then combine_m4b_files runs.
CmdCombine ==
  /\ pc = "dispatch"
  /\ call.command = "combine"
  /\ IF ~call.csv /\ ~call.pattern THEN MainReturns(1)
     ELSE IF ~call.csv /\ ~call.output THEN MainReturns(1)
     ELSE pc' = "combine" /\ UNCHANGED exit_code
  /\ UNCHANGED << cliIdle, result, successful_conversions, completed_files, raised >>

\* cmd_generate_csv, lines 90-93: generate_csv_from_folder runs.
CmdGenerateCsv ==
  /\ pc = "dispatch"
  /\ call.command = "generate-csv"
  /\ pc' = "generate"
  /\ UNCHANGED << cliIdle, result, successful_conversions, completed_files, raised,
                  exit_code >>

\* cmd_combine, lines 70-85, and cmd_generate_csv, lines 93-99: the call
\* returns True or False, or raises.
CallReturns ==
  /\ pc \in {"combine", "generate"}
  /\ \E outcome \in {"True", "False", "Exception"} :
       IF outcome = "Exception"
       THEN /\ raised' = "Exception"
            /\ pc' = "except"
            /\ UNCHANGED << result, exit_code >>
       ELSE /\ result' = Returned(outcome = "True")
            /\ MainReturns(SuccessExitCode(outcome = "True"))
            /\ UNCHANGED raised
  /\ UNCHANGED << cliIdle, successful_conversions, completed_files >>

\* The user interrupts while a subcommand is running: KeyboardInterrupt is
\* raised in the main thread, and nothing below main() catches it.
Interrupt ==
  /\ pc \in {"convert_loop", "combine", "generate"}
  /\ raised' = "KeyboardInterrupt"
  /\ pc' = "except"
  /\ UNCHANGED << cliIdle, result, successful_conversions, completed_files, exit_code >>

\* main, lines 288-293.
HandleException ==
  /\ pc = "except"
  /\ MainReturns(ExceptionExitCode(raised))
  /\ UNCHANGED << cliIdle, result, successful_conversions, completed_files, raised >>

CliNext ==
  \/ ParseArgs
  \/ CmdConvert
  \/ ProcessFile
  \/ CmdConvertReturn
  \/ CmdCombine
  \/ CmdGenerateCsv
  \/ CallReturns
  \/ Interrupt
  \/ HandleException

SpecCli == CliInit /\ [][CliNext]_vars

\* main() has returned.
MainReturned == pc = "returned" /\ call.command \in {"", "convert", "combine", "generate-csv"}

\* The subcommand's library call returned (it was made and did not raise).
CallReturned == raised = "" /\ result.done

C16_PartialSuccess ==
  (MainReturned /\ call.command = "convert" /\ CallReturned) =>
    /\ (0 < result.value[1] /\ result.value[1] < result.value[2]) => exit_code = 0
    /\ (result.value[1] = 0 /\ result.value[2] > 0) => exit_code = 1

C16_Witness ==
  /\ MainReturned
  /\ call.command = "convert"
  /\ CallReturned
  /\ result.value = <<2, 3>>
  /\ completed_files = 3
  /\ exit_code = 0

\* C17: when the pattern matches no supported audio file, or the transcoder
\* is not available, convert returns a nonzero exit code.
C17_NoFilesFails ==
  (MainReturned /\ call.command = "convert"
     /\ (call.audio_files = <<>> \/ ~call.ffmpeg)) => exit_code # 0

\* C18: a KeyboardInterrupt raised while a subcommand is running makes main()
\* return 130, and nothing else does: every other return is 0 or 1, and
\* leaving through argparse's SystemExit does not give 130 either.
C18_InterruptExitCode ==
  /\ MainReturned => exit_code \in {0, 1, 130}
  /\ MainReturned => (exit_code = 130 <=> raised = "KeyboardInterrupt")
  /\ pc = "sysexit" => exit_code # 130

C18_Witness ==
  /\ MainReturned
  /\ call.command = "convert"
  /\ raised = "KeyboardInterrupt"
  /\ completed_files = 1
  /\ Len(call.audio_files) = 2
  /\ exit_code = 130

(***************************************************************************)
(* The temporary directory and the output path of combine_m4b_files.       *)
(***************************************************************************)
\* C19: a temporary directory that combine made for itself is gone on every
\* exit path (success, concat failure, injection failure, verification
\* failure, exception); a directory given by the caller exists from its first
\* use on, made if it was missing, and is still there on every exit path.
C19_TempCleanup ==
  /\ (pc = "returned" /\ temp.kind = "own") => ~temp.exists
  /\ temp.kind = "given" => temp.exists
  /\ pc \in {"concat", "inject", "verify"} =>
       /\ temp.exists
       /\ temp.kind = (IF args.temp_dir THEN "given" ELSE "own")
  /\ (temp.kind = "none") = (temp = NoTemp)

C19_Witness ==
  /\ pc = "returned"
  /\ ret = "raised"
  /\ temp.kind = "own"
  /\ temp.created
  /\ ~temp.exists
  /\ Len(tool_calls) = 2

\* C20: when the concat step or the injection step fails, combine returns
\* False and no new or altered file is at the output path: a step that ends
\* the run with False leaves the output path as it was.
C20_FailedStepLeavesOutput ==
  [][(pc \in {"concat", "inject"} /\ ret' = "False") =>
       output_state' = "untouched"]_vars

(***************************************************************************)
(* convert_all_to_m4b called alone: the batch of process_single_file calls, *)
(* made by the main thread itself when max_workers is 1 and by the threads *)
(* of a ThreadPoolExecutor otherwise.                                      *)
(***************************************************************************)
SUPPORTED_FORMATS ==
  { <<".", "m", "p", "3">>, <<".", "f", "l", "a", "c">>, <<".", "m", "4", "a">>, <<".", "a", "a", "c">>, <<".", "o", "g", "g">>, <<".", "w", "a", "v">>, <<".", "w", "m", "a">> }

\* Path.relative_to(base): the part of path below base, or ValueError.
RelativeTo(path, base) ==
  IF /\ Len(path) > Len(base) + 1
     /\ Take(path, Len(base)) = base
     /\ path[Len(base) + 1] = "/"
  THEN [ok |-> TRUE, path |-> Drop(path, Len(base) + 1)]
  ELSE [ok |-> FALSE, path |-> <<>>]

\* Path.with_suffix(suffix): the last suffix of the name is replaced.
WithSuffix(path, suffix) ==
  Take(path, Len(path) - Len(PathSuffix(path))) \o suffix

\* glob_pattern.split('**')[0]: the text before the first '**'.
RECURSIVE BeforeStars(_)
BeforeStars(pattern) ==
  IF Len(pattern) < 2 THEN pattern
  ELSE IF pattern[1] = "*" /\ pattern[2] = "*" THEN <<>>
  ELSE <<pattern[1]>> \o BeforeStars(Drop(pattern, 1))

\* str.rstrip('/')
RECURSIVE RStripSlash(_)
RStripSlash(s) ==
  IF s # <<>> /\ s[Len(s)] = "/" THEN RStripSlash(Take(s, Len(s) - 1)) ELSE s

\* relative_to(base) or, on ValueError, the name alone.
RelativeOrName(input_file, base) ==
  IF RelativeTo(input_file, base).ok THEN RelativeTo(input_file, base).path
  ELSE BaseName(input_file)

\* process_single_file, lines 124-161: the output path of an input file.
\* base_path is Path(base_input_path).resolve(), the path itself when
\* base_input_path is absolute and normalised, as it is here.
OutputPath(input_file, c) ==
  LET pattern_base == RStripSlash(BeforeStars(c.glob_pattern))
      relative_path ==
        IF c.base_input_path # <<>>
        THEN RelativeOrName(input_file, c.base_input_path)
        ELSE IF BeforeStars(c.glob_pattern) # c.glob_pattern
        THEN IF pattern_base # <<>>
             THEN RelativeOrName(input_file, pattern_base)
             ELSE RelativeOrName(input_file, c.cwd)
        ELSE BaseName(input_file)
  IN  IF c.preserve_structure
      THEN c.output_base_dir \o <<"/">> \o WithSuffix(relative_path, <<".", "m", "4", "b">>)
      ELSE c.output_base_dir \o <<"/">> \o PathStem(input_file) \o <<".", "m", "4", "b">>

\* A run's pattern and base path together with the files glob.glob can find
\* for them: absolute paths for an absolute pattern, paths relative to the
\* working directory for a relative one.
Layouts ==
  { [glob_pattern |-> <<"/", "a", "/", "*", "*", "/", "*">>, base_input_path |-> <<>>, cwd |-> <<"/", "w">>,
     found |-> {<<"/", "a", "/", "x", ".", "m", "p", "3">>, <<"/", "a", "/", "x", ".", "f", "l", "a", "c">>, <<"/", "a", "/", "b", "/", "x", ".", "M", "P", "3">>, <<"/", "a", "/", "n", ".", "t", "x", "t">>}],
    [glob_pattern |-> <<"*", "*", "/", "*", ".", "m", "p", "3">>, base_input_path |-> <<>>, cwd |-> <<"/", "a">>,
     found |-> {<<"x", ".", "m", "p", "3">>, <<"b", "/", "x", ".", "m", "p", "3">>}],
    [glob_pattern |-> <<"/", "a", "/", "*", "/", "*", ".", "m", "p", "3">>, base_input_path |-> <<>>, cwd |-> <<"/", "w">>,
     found |-> {<<"/", "a", "/", "b", "/", "x", ".", "m", "p", "3">>, <<"/", "a", "/", "c", "/", "x", ".", "m", "p", "3">>, <<"/", "a", "/", "b", "/", "y", ".", "m", "p", "3">>}],
    [glob_pattern |-> <<"*", "*", "/", "*", ".", "m", "p", "3">>, base_input_path |-> <<"/", "a">>, cwd |-> <<"/", "w">>,
     found |-> {<<"/", "a", "/", "x", ".", "m", "p", "3">>, <<"/", "a", "/", "b", "/", "x", ".", "m", "p", "3">>, <<"/", "a", "/", "b", "/", "y", ".", "m", "p", "3">>}],
    [glob_pattern |-> <<"/", "r", "/", "*", ".", "m", "p", "3">>, base_input_path |-> <<"/", "a">>, cwd |-> <<"/", "w">>,
     found |-> {<<"/", "r", "/", "x", ".", "m", "p", "3">>, <<"/", "r", "/", "y", ".", "m", "p", "3">>}] }

\* Lines 211-214: the matched files with a supported suffix.
IsSupported(f) == Lower(PathSuffix(f)) \in SUPPORTED_FORMATS
AudioFiles(matching_files) == SelectSeq(matching_files, IsSupported)

\* The arguments of convert_all_to_m4b and what the run meets: whether the
\* transcoder is installed, the files the pattern matches in the order of
\* sorted(glob.glob(full_pattern, recursive=True)), line 208, and the inputs
\* whose output file is already there (converted).
ConvertCalls ==
  UNION { UNION { [glob_pattern : {l.glob_pattern},
                   base_input_path : {l.base_input_path},
                   cwd : {l.cwd},
                   output_base_dir : {<<"/", "o">>},
                   preserve_structure : BOOLEAN,
                   max_workers : 1..MaxJobs,
                   ffmpeg : BOOLEAN,
                   matching_files : {m},
                   converted : SUBSET {m[i] : i \in 1..Len(m)}] :
                  m \in { q \in SeqsOf(l.found, 0, MaxBatch) :
                           \A a, b \in 1..Len(q) : a < b => TextLess(q[a], q[b]) } } :
          l \in Layouts }

audio_files == AudioFiles(call.matching_files)
total_files == Len(audio_files)

\* What is at an output path: nothing, the file of an earlier run, or what
\* the transcoder invocation for input number `by` has written.
Absent == [content |-> "absent", by |-> 0]
Earlier == [content |-> "complete", by |-> 0]

\* A call of process_single_file that was not made yet.
NotSubmitted == [state |-> "unsubmitted", value |-> "none", counted |-> FALSE]

ConvertInit ==
  /\ AloneIdle
  /\ pc = "convert"
  /\ call \in ConvertCalls
  /\ result = NotCalled

\* Everything but the variables a convert batch changes.
convertIdle ==
  << args, ffmpeg_ok, csv_result, glob_result, alt_chapters, alt_doc, call,
     title, output_file, csv_metadata, file_title_list, m4b_files,
     files_metadata, total_duration, encode_params, chapters, current_time,
     track_index, output_metadata, temp, concat_list, metadata_doc,
     output_state, ret, exit_code >>

\* Lines 190-245: without the transcoder or without a supported file the
\* function returns (0, 0); otherwise the counters start at 0.
StartBatch ==
  /\ pc = "convert"
  /\ IF ~call.ffmpeg \/ audio_files = <<>>
     THEN /\ result' = Returned(<<0, 0>>)
          /\ pc' = "returned"
          /\ UNCHANGED batch
     ELSE /\ future_to_file' = [i \in 1..total_files |-> NotSubmitted]
          /\ output_files' =
               [p \in {OutputPath(audio_files[i], call) : i \in 1..total_files} |->
                  IF \E f \in call.converted : IsSupported(f) /\ OutputPath(f, call) = p
                  THEN Earlier ELSE Absent]
          /\ pc' = IF call.max_workers = 1 THEN "loop" ELSE "submit"
          /\ UNCHANGED result
  /\ successful_conversions' = 0
  /\ completed_files' = 0
  /\ UNCHANGED << convertIdle, tool_calls, raised >>

\* Lines 301-307: executor.submit for the next file; after the last one the
\* main thread waits in as_completed.
Submit ==
  /\ pc = "submit"
  /\ \E i \in 1..total_files :
       /\ future_to_file[i].state = "unsubmitted"
       /\ \A j \in 1..(i - 1) : future_to_file[j].state # "unsubmitted"
       /\ future_to_file' = [future_to_file EXCEPT ![i].state = "pending"]
       /\ pc' = IF i = total_files THEN "as_completed" ELSE "submit"
  /\ UNCHANGED << convertIdle, tool_calls, raised, result, output_files,
                  successful_conversions, completed_files >>

\* Who may begin the call for file i: the main thread for the next file of
\* its loop (line 289), or a thread of the pool that is free, for the oldest
\* call waiting in the executor's queue, however the main thread has left
\* the with block.
MayBegin(i) ==
  IF call.max_workers = 1
  THEN /\ pc = "loop"
       /\ i = completed_files + 1
       /\ future_to_file[i].state = "unsubmitted"
  ELSE /\ pc \in {"submit", "as_completed", "shutdown"}
       /\ future_to_file[i].state = "pending"
       /\ \A j \in 1..(i - 1) : future_to_file[j].state # "pending"
       /\ Cardinality({ j \in 1..total_files :
                          future_to_file[j].state \in {"checked", "running"} })
            < call.max_workers

\* The call for file i ended with this value; an exception is kept in the
\* future by the pool and propagates out of the loop of the main thread.
Ends(i, value) ==
  /\ future_to_file' = [future_to_file EXCEPT ![i].state = "done", ![i].value = value]
  /\ IF value = "raised" /\ call.max_workers = 1
     THEN /\ raised' = "Exception"
          /\ result' = [done |-> TRUE, raised |-> "Exception"]
          /\ pc' = "returned"
     ELSE UNCHANGED << raised, result, pc >>

\* process_single_file, lines 124-166: the output path is computed and
\* looked up; the call raises (Path.exists on a directory that cannot be
\* searched), returns False because the output is there, or goes on.
CheckOutput(i) ==
  /\ MayBegin(i)
  /\ \E error \in BOOLEAN :
       IF error THEN Ends(i, "raised")
       ELSE IF output_files[OutputPath(audio_files[i], call)] # Absent
       THEN Ends(i, "False")
       ELSE /\ future_to_file' = [future_to_file EXCEPT ![i].state = "checked"]
            /\ UNCHANGED << raised, result, pc >>
  /\ UNCHANGED << convertIdle, tool_calls, output_files,
                  successful_conversions, completed_files >>

\* convert_to_m4b, lines 80-93: ffmpeg is started with -y on the output
\* path, which it may have opened for writing already.
StartTranscoder(i) ==
  /\ pc \in {"loop", "submit", "as_completed", "shutdown"}
  /\ future_to_file[i].state = "checked"
  /\ LET output_path == OutputPath(audio_files[i], call)
     IN  /\ tool_calls' = Append(tool_calls, [input |-> i, output |-> output_path])
         /\ \E opened \in BOOLEAN :
              output_files' =
                IF opened
                THEN [output_files EXCEPT ![output_path] = [content |-> "partial", by |-> i]]
                ELSE output_files
  /\ future_to_file' = [future_to_file EXCEPT ![i].state = "running"]
  /\ UNCHANGED << convertIdle, raised, result, pc, successful_conversions,
                  completed_files >>

\* convert_to_m4b, lines 93-113: ffmpeg exits; True when it succeeded and the
\* output file is there, False otherwise, with whatever it had written left.
TranscoderExits(i) ==
  /\ pc \in {"loop", "submit", "as_completed", "shutdown"}
  /\ future_to_file[i].state = "running"
  /\ LET output_path == OutputPath(audio_files[i], call)
     IN  \E ok \in BOOLEAN :
           IF ok
           THEN /\ output_files' =
                     [output_files EXCEPT ![output_path] = [content |-> "complete", by |-> i]]
                /\ Ends(i, "True")
           ELSE /\ UNCHANGED output_files
                /\ Ends(i, "False")
  /\ UNCHANGED << convertIdle, tool_calls, successful_conversions, completed_files >>

\* A faulty variant of update_counters: only successes are counted as completed.
update_counters_SuccessOnly(success, counters) ==
  IF success THEN << counters[1] + 1, counters[2] + 1 >> ELSE counters

\* update_counters, lines 247-252, on (successful_conversions, completed_files).
update_counters(success, counters) ==
  << counters[1] + (IF success THEN 1 ELSE 0), counters[2] + 1 >>

\* Lines 295 and 310-330: the main thread counts a call that has ended, the
\* one it made itself or any future that as_completed yields, an exception
\* kept in the future as a failure; after the last one it returns the counters.
CountResult ==
  /\ pc \in {"loop", "as_completed"}
  /\ \E i \in 1..total_files :
       /\ future_to_file[i].state = "done"
       /\ ~future_to_file[i].counted
       /\ future_to_file' = [future_to_file EXCEPT ![i].counted = TRUE]
       /\ LET counters == update_counters(future_to_file[i].value = "True",
                            << successful_conversions, completed_files >>)
          IN  /\ successful_conversions' = counters[1]
              /\ completed_files' = counters[2]
              /\ IF \A j \in 1..total_files : j # i => future_to_file[j].counted
                 THEN /\ result' = Returned(<< counters[1], total_files >>)
                      /\ pc' = "returned"
                 ELSE UNCHANGED << result, pc >>
  /\ UNCHANGED << convertIdle, tool_calls, raised, output_files >>

\* The user interrupts the batch: KeyboardInterrupt is raised in the main
\* thread, which no handler of convert_all_to_m4b catches.  With one worker
\* subprocess.run kills the transcoder it was waiting for and the exception
\* leaves the function; with a pool the exception leaves the with block of
\* line 299 through the executor's shutdown(wait=True).
KeyboardInterrupt ==
  /\ pc \in {"loop", "submit", "as_completed"}
  /\ raised' = "KeyboardInterrupt"
  /\ IF call.max_workers = 1
     THEN /\ future_to_file' =
               [i \in 1..total_files |->
                  IF future_to_file[i].state \in {"checked", "running"}
                  THEN [future_to_file[i] EXCEPT !.state = "done", !.value = "interrupted"]
                  ELSE future_to_file[i]]
          /\ result' = [done |-> TRUE, raised |-> "KeyboardInterrupt"]
          /\ pc' = "returned"
     ELSE /\ pc' = "shutdown"
          /\ UNCHANGED << future_to_file, result >>
  /\ UNCHANGED << convertIdle, tool_calls, output_files, successful_conversions,
                  completed_files >>

\* ThreadPoolExecutor.__exit__: shutdown(wait=True) returns once the threads
\* have run every call that was submitted; then the exception goes on.
Shutdown ==
  /\ pc = "shutdown"
  /\ \A i \in 1..total_files : future_to_file[i].state \in {"unsubmitted", "done"}
  /\ result' = [done |-> TRUE, raised |-> raised]
  /\ pc' = "returned"
  /\ UNCHANGED << convertIdle, tool_calls, raised, output_files, future_to_file,
                  successful_conversions, completed_files >>

ConvertNext ==
  \/ StartBatch
  \/ Submit
  \/ \E i \in 1..total_files : CheckOutput(i)
  \/ \E i \in 1..total_files : StartTranscoder(i)
  \/ \E i \in 1..total_files : TranscoderExits(i)
  \/ CountResult
  \/ KeyboardInterrupt
  \/ Shutdown

SpecConvert == ConvertInit /\ [][ConvertNext]_vars

(***************************************************************************)
(* The convert batch: interrupts, counters, output paths, skipped inputs.  *)
(***************************************************************************)
\* convert_all_to_m4b returned its pair of counters.
CountersReturned == pc = "returned" /\ result.done /\ result.raised = ""

\* C21: once an interrupt was received during a convert batch, with one
\* worker or with a pool, no further transcoder invocation is started, and
\* the batch ends by reporting the partial completion: the numbers of files
\* succeeded and completed so far.
C21_InterruptStopsBatch ==
  /\ [][raised = "KeyboardInterrupt" => tool_calls' = tool_calls]_vars
  /\ []((pc = "returned" /\ raised = "KeyboardInterrupt") =>
          /\ result.raised = ""
          /\ result.value = << successful_conversions, completed_files >>)

\* The calls of process_single_file that returned True.
Succeeded == { i \in 1..total_files : future_to_file[i].value = "True" }

\* The batch was begun: the transcoder is there and some file is supported.
BatchBegun == call.ffmpeg /\ total_files > 0

\* C22, the counters: when convert_all_to_m4b returns, every matched audio
\* file was processed once (its call has ended, at most one transcoder
\* invocation was made for it) and counted, completed_files equals total,
\* and the returned successful count is the number of calls that returned
\* True, between 0 and total.
CountersAgree ==
  (CountersReturned /\ BatchBegun) =>
    /\ \A i \in 1..total_files :
         /\ future_to_file[i].state = "done"
         /\ future_to_file[i].counted
         /\ Cardinality({ k \in 1..Len(tool_calls) : tool_calls[k].input = i }) <= 1
    /\ completed_files = total_files
    /\ result.value = << Cardinality(Succeeded), total_files >>
    /\ successful_conversions = Cardinality(Succeeded)
    /\ 0 <= result.value[1] /\ result.value[1] <= result.value[2]

\* C22: for any worker count >= 1 and any interleaving the counters agree
\* with the calls when convert_all_to_m4b returns, and a call that fails or
\* raises is counted as completed but not successful without stopping the
\* remaining calls: short of an interrupt, the batch ends by returning.
C22_EveryFileCounted ==
  /\ CountersAgree
  /\ (pc = "returned" /\ raised # "KeyboardInterrupt") => CountersReturned

\* C23: in a convert batch every transcoder invocation writes an output
\* path that no other invocation of the batch writes, whatever files were
\* matched and in both the preserve-structure and the flat mode.
C23_DistinctOutputs ==
  \A a, b \in 1..Len(tool_calls) :
    a # b => tool_calls[a].output # tool_calls[b].output

\* The step looks up the output path of file i (the call goes from waiting
\* to checked or ended) and finds a file there.
FindsOutput(i) ==
  /\ pc # "convert"
  /\ future_to_file[i].state \in {"unsubmitted", "pending"}
  /\ future_to_file'[i].state \in {"checked", "done"}
  /\ future_to_file'[i].value # "raised"
  /\ output_files[OutputPath(audio_files[i], call)] # Absent

\* Every supported file that was matched has its output from an earlier run.
FullyConverted ==
  \A i \in 1..total_files : audio_files[i] \in call.converted

\* C30: an input whose computed output path already exists is skipped: its
\* call ends with False in that step, no transcoder invocation is made and
\* no output file changes; it is counted as completed but not successful,
\* so a run over a fully converted tree returns (0, total), having invoked
\* no transcoder and changed no file.
C30_ExistingOutputSkipped ==
  /\ [][\A i \in 1..total_files :
          FindsOutput(i) =>
            /\ future_to_file'[i].state = "done"
            /\ future_to_file'[i].value = "False"
            /\ tool_calls' = tool_calls
            /\ output_files' = output_files]_vars
  /\ []((CountersReturned /\ BatchBegun /\ FullyConverted) =>
          /\ result.value = << 0, total_files >>
          /\ completed_files = total_files
          /\ tool_calls = <<>>
          /\ \A p \in DOMAIN output_files : output_files[p] = Earlier)

C30_Witness ==
  /\ CountersReturned
  /\ FullyConverted
  /\ call.max_workers = 2
  /\ total_files = 3
  /\ Cardinality(DOMAIN output_files) = 2
  /\ \A i \in 1..total_files : future_to_file[i].value = "False"
  /\ result.value = << 0, 3 >>

(***************************************************************************)
(* The sort of combine_m4b_files, line 473, called alone on the absolute   *)
(* paths that the glob of lines 457-458 gives.                             *)
(***************************************************************************)
SortInit ==
  /\ AloneIdle
  /\ pc = "sort"
  /\ call \in { [m4b_files |-> q] :
                  q \in { s \in SeqsOf({ <<"/", "d", "/", "f", "i", "l", "e", "1", ".", "m", "4", "b">>, <<"/", "d", "/", "f", "i", "l", "e", "2", ".", "m", "4", "b">>, <<"/", "d", "/", "f", "i", "l", "e", "1", "0", ".", "m", "4", "b">>, <<"/", "d", "/", "F", "i", "l", "e", "3", ".", "m", "4", "b">>, <<"/", "a", "/", "f", "i", "l", "e", "2", "0", ".", "m", "4", "b">>, <<"/", "d", "/", "f", "i", "l", "e", "0", "2", ".", "m", "4", "b">>,
                                        <<"/", "d", "/", "7", ".", "m", "4", "b">>, <<"/", "d", "/", "²", "5", ".", "m", "4", "b">> }, 0, MaxFiles) :
                          IsInjective(s) } }
  /\ result = NotCalled

\* m4b_files.sort(key=lambda x: natural_sort_key(os.path.basename(x)))
SortFiles ==
  /\ pc = "sort"
  /\ ~result.done
  /\ result' = IF SortRaises(call.m4b_files)
               THEN [done |-> TRUE, raised |-> "ValueError"]
               ELSE Returned(NaturalSort(call.m4b_files))
  /\ UNCHANGED allButResult

SpecSort == SortInit /\ [][SortFiles]_vars

\* Natural order on two lower-cased names: the leading text decides by code
\* point; with the same leading text, the name that ends there comes first,
\* otherwise the digit runs that follow decide by their value, and when
\* these are equal the rest of the names decides in the same way.
RECURSIVE NaturalLess(_, _)
NaturalLess(a, b) ==
  LET ta == Take(a, SpanNonDigit(a))
      tb == Take(b, SpanNonDigit(b))
      ra == Drop(a, Len(ta))
      rb == Drop(b, Len(tb))
      da == Take(ra, SpanDigit(ra))
      db == Take(rb, SpanDigit(rb))
  IN  IF ta # tb THEN TextLess(ta, tb)
      ELSE IF ra = <<>> \/ rb = <<>> THEN ra = <<>> /\ rb # <<>>
      ELSE IF TextToInt(da) # TextToInt(db) THEN TextToInt(da) < TextToInt(db)
      ELSE NaturalLess(Drop(ra, Len(da)), Drop(rb, Len(db)))

\* The first pair of elements in which two keys differ can be compared.
RECURSIVE KeysComparable(_, _)
KeysComparable(a, b) ==
  IF a = <<>> \/ b = <<>> THEN TRUE
  ELSE IF a[1] # b[1] THEN PartComparable(a[1], b[1])
  ELSE KeysComparable(Tail(a), Tail(b))

\* The sorted list holds the files of the call, each once, with no file
\* before one that is smaller in the natural order of the base names.
NaturallySorted(sorted) ==
  /\ Len(sorted) = Len(call.m4b_files)
  /\ \A k \in 1..Len(sorted) : \E h \in 1..Len(sorted) : call.m4b_files[h] = sorted[k]
  /\ IsInjective(sorted)
  /\ \A i, j \in 1..Len(sorted) :
       i < j => ~NaturalLess(Lower(BaseName(sorted[j])), Lower(BaseName(sorted[i])))

\* C24: in glob mode combine orders the files by the natural order of their
\* base names, digit runs by value and other text without regard to case
\* (file1 < file2 < file10), and the sort never fails, whatever the names:
\* no key raises and any two keys can be compared.
C24_NaturalOrder ==
  result.done =>
    /\ result.raised = ""
    /\ NaturallySorted(result.value)
    /\ \A i, j \in 1..Len(call.m4b_files) :
         KeysComparable(natural_sort_key(BaseName(call.m4b_files[i])),
                        natural_sort_key(BaseName(call.m4b_files[j])))

(***************************************************************************)
(* extract_existing_chapters called alone on any outcome of the probe.     *)
(***************************************************************************)
ChaptersInit ==
  /\ AloneIdle
  /\ pc = "chapters"
  /\ call \in
       { [probe |-> [error |-> e, chapters |-> <<>>]] :
           e \in {"CalledProcessError", "FileNotFoundError", "JSONDecodeError"} }
       \cup
       { [probe |-> [error |-> "", chapters |-> c]] :
           c \in SeqsOf([start_time : {0, 2}, end_time : {2, 5}, numeric : BOOLEAN,
                         has_title : {FALSE}, title : {<<>>}]
                        \cup [start_time : {0}, end_time : {5}, numeric : BOOLEAN,
                              has_title : {TRUE}, title : {<<>>, <<"a">>}],
                        0, MaxChapters) }
  /\ result = NotCalled

ExtractExistingChapters ==
  /\ pc = "chapters"
  /\ ~result.done
  /\ result' = ExtractChapters(call.probe)
  /\ UNCHANGED allButResult

SpecChapters == ChaptersInit /\ [][ExtractExistingChapters]_vars

\* The probe failed: it ended with an exception, or gave a start or end
\* time that is not a number.
ProbeFailed(p) ==
  p.error # "" \/ \E k \in 1..Len(p.chapters) : ~p.chapters[k].numeric

\* C25: extract_existing_chapters never raises; it returns the empty list
\* whenever the container has no chapters or the probe fails in any way
\* (non-zero exit, missing executable, malformed JSON, non-numeric time).
C25_NeverRaises ==
  result.done =>
    /\ result.raised = ""
    /\ (ProbeFailed(call.probe) \/ call.probe.chapters = <<>>) => result.value = <<>>

(***************************************************************************)
(* The choice of encoder arguments alone, on any list of probed tracks.    *)
(***************************************************************************)
CompatInit ==
  /\ AloneIdle
  /\ pc = "compat"
  /\ call \in
       { [files_metadata |-> q] :
           q \in SeqsOf([codec : {"aac", "mp3"}, sample_rate : {"44100", "22050"},
                         channels : {1, 2}], 1, MaxFiles) }
  /\ result = NotCalled

ChooseEncodeParams ==
  /\ pc = "compat"
  /\ ~result.done
  /\ result' = Returned(EncodeParams(call.files_metadata))
  /\ UNCHANGED allButResult

SpecCompat == CompatInit /\ [][ChooseEncodeParams]_vars

\* Every track has the codec, sample rate and channel count of the first.
SameAsFirst(fm) ==
  \A k \in 1..Len(fm) :
    /\ fm[k].codec = fm[1].codec
    /\ fm[k].sample_rate = fm[1].sample_rate
    /\ fm[k].channels = fm[1].channels

\* C27: the concat step stream-copies exactly when every input has the codec,
\* sample rate and channel count of the first input; in every other case it
\* re-encodes to AAC at 64k with 2 channels.
C27_CopyIffCompatible ==
  result.done =>
    /\ result.value = <<"-c", "copy">> <=> SameAsFirst(call.files_metadata)
    /\ ~SameAsFirst(call.files_metadata) =>
         result.value = <<"-c:a", "aac", "-b:a", "64k", "-ac", "2">>

C27_Witness ==
  /\ pc = "compat"
  /\ result.done
  /\ Len(call.files_metadata) = MaxFiles
  /\ SameAsFirst(call.files_metadata)
  /\ result.value = <<"-c", "copy">>

(***************************************************************************)
(* Titles derived from the file name at combine time                       *)
(***************************************************************************)
\* Track i is titled from its file name: no manifest title, no embedded
\* title, no embedded chapters taken over, and something left of the stem.
DerivedFromName(i) ==
  /\ ManifestTitle(m4b_files[i]) = <<>>
  /\ Strip(FfprobeFormat(m4b_files[i]).tags.title) = <<>>
  /\ ~(args.preserve_existing_chapters /\ Len(Embedded(m4b_files[i])) >= 1)
  /\ CleanStem(PathStem(m4b_files[i])) # <<>>

BareTitle(i) == Title(CleanStem(PathStem(m4b_files[i])))
NumberedTitle(i) == ChapterWord \o IntToText(i) \o <<":", " ">> \o BareTitle(i)

\* C26 (as stated): a title derived from the file name is 'Chapter {n}: {Title}'
\* without a CSV manifest and the bare '{Title}' when the fallback is reached
\* through a manifest row with an empty title.
C26_TwoPrefixingPolicies ==
  (track_index >= 1 /\ DerivedFromName(track_index)) =>
    chapters[Len(chapters)].title =
      IF args.csv_file THEN BareTitle(track_index) ELSE NumberedTitle(track_index)

\* C26 (amended): combine_m4b_files of the package has one policy: a title
\* derived from the file name is the bare title-cased cleaned stem '{Title}',
\* with and without a CSV manifest alike.
C26_DerivedTitlesBare ==
  (track_index >= 1 /\ DerivedFromName(track_index)) =>
    chapters[Len(chapters)].title = BareTitle(track_index)

C26_Witness ==
  /\ ~args.csv_file
  /\ track_index = 2
  /\ DerivedFromName(2)
  /\ chapters[Len(chapters)].title = BareTitle(2)
  /\ chapters[Len(chapters)].title # NumberedTitle(2)

(***************************************************************************)
(* A manifest that lists one file in several rows                          *)
(***************************************************************************)
\* Two rows of the manifest name the same file with different titles.
RepeatedFile ==
  \E a, b \in 1..Len(file_title_list) :
    /\ a # b
    /\ file_title_list[a].file = file_title_list[b].file
    /\ file_title_list[a].title # <<>>
    /\ file_title_list[b].title # <<>>
    /\ file_title_list[a].title # file_title_list[b].title

\* C28: when a manifest lists one file in several rows with different titles,
\* combine emits one chapter per row and each chapter has the title of its own
\* row: the chapters can be matched one to one with the rows, file by file and
\* title by title.
C28_OwnRowTitle ==
  (args.csv_file /\ ~args.preserve_existing_chapters /\ Synthesized /\ RepeatedFile) =>
    /\ Len(chapters) = Len(file_title_list)
    /\ \E row \in Permutations(1..Len(file_title_list)) :
         \A k \in 1..Len(chapters) :
           /\ m4b_files[k] = file_title_list[row[k]].file
           /\ file_title_list[row[k]].title # <<>> =>
                chapters[k].title = file_title_list[row[k]].title

(***************************************************************************)
(* A '#' line of the directive block without ',' and ':'                   *)
(***************************************************************************)
\* The line starts with '#' and has neither ',' nor ':'.
IsBareComment(line) ==
  IsDirectiveLine(line) /\ \A k \in 1..Len(line) : line[k] \notin {",", ":"}

\* Line i is in the leading directive block of a manifest that has a table.
InDirectiveBlock(i) == HeaderIndex # 0 /\ i < HeaderIndex

Without(lines, i) == SubSeq(lines, 1, i - 1) \o SubSeq(lines, i + 1, Len(lines))

\* C29: a '#' line with neither ',' nor ':' is ignored wherever it is in the
\* directive block: the parse ends as it does on the manifest without the
\* line, with the same metadata and the same entries.
C29_BareCommentIgnored ==
  ParsedManifest =>
    \A i \in 1..Len(call.lines) :
      (IsBareComment(call.lines[i]) /\ InDirectiveBlock(i)) =>
        LET absent == parse_csv_input(call.found, call.csv_dir,
                                      Without(call.lines, i), ExistingPaths)
        IN  /\ result.raised = absent.raised
            /\ result.metadata = absent.metadata
            /\ result.file_list = absent.file_list

====
